---- MODULE Spec2Model ----
(***************************************************************************)
(* A model of the procedural price engine (src/src/utils/priceEngine.js)   *)
(* and of the chart's data shaping (StockChart).                           *)
(*                                                                         *)
(* Number representations                                                  *)
(*   - a 32-bit word is a pair <<hi, lo>> of 16-bit halves; every integer  *)
(*     operation of the hashing layer is exact modulo 2^32.                *)
(*   - rand2's result k / 2^32 is kept as the word k.                      *)
(*   - noise values in [-1, 1] are fixed point with 15 fractional bits     *)
(*     (Q15), smoothstep weights with 14 fractional bits (Q14).            *)
(*   - basePrice and day-open prices are in mills (1/1000 dollar); prices  *)
(*     returned by getPriceAtSecond are in tenths of a mill, so that the   *)
(*     floor 0.9 * dayOpen is exactly 9 * dayOpen.                         *)
(***************************************************************************)
EXTENDS Integers, Sequences, FiniteSets, TLC

Max(a, b) == IF a >= b THEN a ELSE b
Min(a, b) == IF a <= b THEN a ELSE b
Abs(a) == IF a >= 0 THEN a ELSE -a

\* F applied to the value of e, which is computed once
Bind(e, F(_)) == CHOOSE r \in {F(x) : x \in {e}} : TRUE

RECURSIVE SeqMax(_)
SeqMax(s) == IF Len(s) = 1 THEN s[1] ELSE Max(s[1], SeqMax(Tail(s)))

RECURSIVE SeqMin(_)
SeqMin(s) == IF Len(s) = 1 THEN s[1] ELSE Min(s[1], SeqMin(Tail(s)))

(***************************************************************************)
(* 32-bit words                                                            *)
(***************************************************************************)
Half == 256 * 256

\* the word of an integer in -2^31 .. 2^31-1 (JavaScript's x | 0, two's complement)
ToWord(n) == <<(n \div Half) % Half, n % Half>>

RECURSIVE XorBits(_, _, _)
XorBits(a, b, n) ==
    IF n = 0 THEN 0
    ELSE ((a + b) % 2) + 2 * XorBits(a \div 2, b \div 2, n - 1)

\* the exclusive or of two 4-bit numbers, tabulated
XorNibble == [a \in 0..15 |-> [b \in 0..15 |-> XorBits(a, b, 4)]]

\* the exclusive or of two 16-bit numbers
Xor16(a, b) ==
    XorNibble[a % 16][b % 16]
      + 16 * XorNibble[(a \div 16) % 16][(b \div 16) % 16]
      + 256 * XorNibble[(a \div 256) % 16][(b \div 256) % 16]
      + 4096 * XorNibble[a \div 4096][b \div 4096]

\* JavaScript's ^ on two words
Xor(x, y) == <<Xor16(x[1], y[1]), Xor16(x[2], y[2])>>

\* a * b modulo 2^16, by bytes of b
MulMod16(a, b) == (a * (b % 256) + ((a * (b \div 256)) % 256) * 256) % Half

\* Math.imul: the low 32 bits of the product of two words
Imul(x, y) ==
    LET p0   == x[2] * (y[2] % 256)
        p1   == x[2] * (y[2] \div 256)
        low  == p0 + (p1 % 256) * 256
        carry == (low \div Half) + (p1 \div 256)
    IN  << (carry + MulMod16(x[2], y[1]) + MulMod16(x[1], y[2])) % Half,
           low % Half >>

\* (x + y) | 0
AddWord(x, y) ==
    LET lo == x[2] + y[2]
    IN  << (x[1] + y[1] + lo \div Half) % Half, lo % Half >>

\* (x >>> 16) ^ x
ShiftXor(x) == <<x[1], Xor16(x[1], x[2])>>

(***************************************************************************)
(* Hashing layer                                                           *)
(***************************************************************************)
\* FNV-1a over the character codes of the symbol (a sequence of codes)
RECURSIVE symbolSeedFrom(_, _, _)
symbolSeedFrom(h, symbol, i) ==
    IF i > Len(symbol) THEN h
    ELSE symbolSeedFrom(Imul(Xor(h, ToWord(symbol[i])), <<256, 403>>), symbol, i + 1)

symbolSeed(symbol) == symbolSeedFrom(<<33052, 40389>>, symbol, 1)

\* rand2(a, b) * 2^32 as a word; a is a word, b an integer
rand2(a, b) ==
    LET x0 == AddWord(Imul(Xor(a, <<57005, 48879>>), <<40503, 31161>>), ToWord(b))
        x1 == Imul(ShiftXor(x0), <<1117, 40763>>)
        x2 == Imul(ShiftXor(x1), <<1117, 40763>>)
    IN  ShiftXor(x2)

(***************************************************************************)
(* Fixed-point helpers                                                     *)
(***************************************************************************)
\* a / b rounded to the nearest integer (b > 0)
RoundDiv(a, b) == (a + (b \div 2)) \div b

\* rand2(..) * 2 - 1 in Q15, from the word of rand2
NoiseQ15(k) == k[1] + (k[2] \div 32768) - 32768

\* Number.prototype.toFixed(2) read back as a number: x (tenth-mills) to whole cents
ToFixed2(x) == IF x >= 0 THEN ((x + 50) \div 100) * 100
               ELSE -((((-x) + 50) \div 100) * 100)

\* Math.sin(marketSec / 23400 * Math.PI) in Q15 (Bhaskara's rational
\* approximation on a half period, extended by sin(x + pi) = -sin(x))
RECURSIVE SinQ15(_)
SinQ15(marketSec) ==
    IF marketSec < 0 THEN -SinQ15(-marketSec)
    ELSE IF marketSec > 23400 THEN -SinQ15(marketSec - 23400)
    ELSE LET p == marketSec * (23400 - marketSec)
         IN  RoundDiv(4 * p, (684450000 - p) \div 32768)

\* e^(-n) in Q15, n >= 0
RECURSIVE ExpNegInt(_)
ExpNegInt(n) == IF n = 0 THEN 32768 ELSE RoundDiv(12055 * ExpNegInt(n - 1), 32768)

\* Math.exp(-num / den) in Q15 for num >= 0, den > 0: e^(-floor(num/den)) times
\* the Taylor polynomial of degree 7 of e^(-x) at the fractional part x
ExpNeg(num, den) ==
    LET x  == RoundDiv((num % den) * 32768, den)
        h7 == 32768 - RoundDiv(x, 7)
        h6 == 32768 - RoundDiv(x * h7, 32768 * 6)
        h5 == 32768 - RoundDiv(x * h6, 32768 * 5)
        h4 == 32768 - RoundDiv(x * h5, 32768 * 4)
        h3 == 32768 - RoundDiv(x * h4, 32768 * 3)
        h2 == 32768 - RoundDiv(x * h3, 32768 * 2)
        h1 == 32768 - RoundDiv(x * h2, 32768)
    IN  RoundDiv(ExpNegInt(num \div den) * h1, 32768)

\* Math.exp(-num / den) in Q15, for either sign of num
Exp(num, den) ==
    IF num >= 0 THEN ExpNeg(num, den)
    ELSE RoundDiv(32768 * 32768, ExpNeg(-num, den))

(***************************************************************************)
(* State: the wall clock the engine reads, and the engine call in progress *)
(***************************************************************************)
VARIABLES
    nowDay,     \* floor(Date.now() / 86400000)
    nowSec,     \* local second of the day of new Date(Date.now())
    call,       \* the call that has just returned (op = "idle": none)
    prev        \* the call that returned before it

vars == <<nowDay, nowSec, call, prev>>

Idle == [op |-> "idle"]

(***************************************************************************)
(* Smooth noise                                                            *)
(***************************************************************************)
\* value in Q15; symHash a word, channel and t integers
\* frac * frac * (3 - 2 * frac), frac and the result in Q14
Smoothstep(frac) ==
    RoundDiv(RoundDiv(frac * frac, 16384) * (3 * 16384 - 2 * frac), 16384)

\* the bucket's own value held over the whole bucket, without interpolation
smoothNoise_Step(symHash, channel, t, period) ==
    NoiseQ15(rand2(Xor(symHash, ToWord(channel)), t \div period))

\* the next bucket's value taken two buckets ahead: rand2(seed, b0 + 2)
smoothNoise_SkipBucket(symHash, channel, t, period) ==
    LET b0   == t \div period
        frac == RoundDiv((t - b0 * period) * 16384, period)
        seed == Xor(symHash, ToWord(channel))
        v1   == NoiseQ15(rand2(seed, b0 + 2))
        u    == Smoothstep(frac)
    IN  Bind(NoiseQ15(rand2(seed, b0)),
             LAMBDA v0 : v0 + RoundDiv((v1 - v0) * u, 16384))

smoothNoise(symHash, channel, t, period) ==
    LET b0   == t \div period
        frac == RoundDiv((t - b0 * period) * 16384, period)      \* Q14
        seed == Xor(symHash, ToWord(channel))
        v1   == NoiseQ15(rand2(seed, b0 + 1))
        u    == Smoothstep(frac)
    IN  Bind(NoiseQ15(rand2(seed, b0)),
             LAMBDA v0 : v0 + RoundDiv((v1 - v0) * u, 16384))

(***************************************************************************)
(* Day-level prices                                                        *)
(***************************************************************************)
todayDayNum == nowDay

\* price / (1 + r * 0.015), with e = r * 0.015 in units of 1/100000
DriftUndone(price, e) == price - RoundDiv(price * e, 100000 + e)

\* the day's drift multiplied in, without the 1 +: price *= r * 0.015
DayOpenDrift_Factor(symHash, price, d) ==
    LET r == NoiseQ15(rand2(Xor(symHash, <<17477, 21589>>), d))
    IN  RoundDiv(price * RoundDiv(r * 1500, 32768), 100000)

\* one day of the walk undone: price /= (1 + r * 0.015), r hashed from day d
DayOpenDrift(symHash, price, d) ==
    LET r == NoiseQ15(rand2(Xor(symHash, <<17477, 21589>>), d))
    IN  DriftUndone(price, RoundDiv(r * 1500, 32768))

\* the price after the iteration of day d: the drift undone, then the reset
DayOpenStep(symHash, basePrice, price, d) ==
    Bind(DayOpenDrift(symHash, price, d),
         LAMBDA p1 : IF p1 <= 0 THEN RoundDiv(basePrice * 3, 10) ELSE p1)

\* the backward walk of getDayOpenPrice from day d down to dayNum (mills)
RECURSIVE DayOpenWalk(_, _, _, _, _)
DayOpenWalk(symHash, basePrice, price, d, dayNum) ==
    IF d <= dayNum THEN price
    ELSE Bind(DayOpenStep(symHash, basePrice, price, d),
              LAMBDA p1 : DayOpenWalk(symHash, basePrice, p1, d - 1, dayNum))

\* the walk entered with d >= dayNum: one drift step too many
getDayOpenPrice_OffByOne(symHash, basePrice, dayNum) ==
    LET today == todayDayNum
    IN  IF dayNum > today THEN basePrice
        ELSE Max(DayOpenWalk(symHash, basePrice, basePrice, today, dayNum - 1),
                 RoundDiv(basePrice, 10))

getDayOpenPrice(symHash, basePrice, dayNum) ==
    LET today == todayDayNum
    IN  IF dayNum >= today THEN basePrice
        ELSE Max(DayOpenWalk(symHash, basePrice, basePrice, today, dayNum),
                 RoundDiv(basePrice, 10))

(***************************************************************************)
(* Intraday price at a specific second                                     *)
(***************************************************************************)
\* one noise layer: smoothNoise * vol * weight (weight in hundredths)
Layer(symHash, channel, t, period, vol, weight) ==
    RoundDiv(RoundDiv(vol * weight, 100) * smoothNoise(symHash, channel, t, period), 32768)

\* the arc with a cosine in place of the sine: largest at the open
Trend_Cosine(vol, marketSec) ==
    RoundDiv(RoundDiv(vol * 6, 10) * SinQ15(marketSec + 11700), 32768)

\* vol * 0.6 * Math.sin(dayFrac * Math.PI)
Trend(vol, marketSec) == RoundDiv(RoundDiv(vol * 6, 10) * SinQ15(marketSec), 32768)

\* dayOpen * 0.012 in tenth-mills (dayOpen in mills)
Volatility(dayOpen) == RoundDiv(dayOpen * 12, 100)

\* n1 + n2 + n3 + n4 at the absolute time t
NoiseLayers(symHash, dayOpen, t) ==
    LET vol == Volatility(dayOpen)
    IN  Layer(symHash, 4097, t, 3600, vol, 100)
          + Layer(symHash, 8194, t, 600, vol, 55)
          + Layer(symHash, 12291, t, 60, vol, 30)
          + Layer(symHash, 16388, t, 10, vol, 15)

\* the day multiplier taken to be the length of the session
TimeCoordinate_SessionLength(dayNum, marketSec) == dayNum * 23400 + Max(0, marketSec)

\* t: the absolute time of a second of a day
TimeCoordinate(dayNum, marketSec) == dayNum * 30000 + Max(0, marketSec)

\* dayOpen + n1 + n2 + n3 + n4 + trend, in tenth-mills, before rounding
PriceSum(symHash, dayOpen, dayNum, marketSec) ==
    LET t == TimeCoordinate(dayNum, marketSec)
    IN  dayOpen * 10 + NoiseLayers(symHash, dayOpen, t)
          + Trend(Volatility(dayOpen), marketSec)

\* the value returned when the floor is missing
getPriceAtSecond_NoFloor(symbol, basePrice, dayNum, marketSec) ==
    Bind(symbolSeed(symbol), LAMBDA symHash :
      Bind(getDayOpenPrice(symHash, basePrice, dayNum), LAMBDA dayOpen :
        ToFixed2(PriceSum(symHash, dayOpen, dayNum, marketSec))))

\* basePrice in mills; the result in tenth-mills
getPriceAtSecond(symbol, basePrice, dayNum, marketSec) ==
    Bind(symbolSeed(symbol), LAMBDA symHash :
      Bind(getDayOpenPrice(symHash, basePrice, dayNum), LAMBDA dayOpen :
        Max(ToFixed2(PriceSum(symHash, dayOpen, dayNum, marketSec)), dayOpen * 9)))

(***************************************************************************)
(* Minute-bar OHLCV                                                        *)
(***************************************************************************)
SampleOffsets == <<0, 12, 24, 36, 48, 59>>

\* the bias factor with the wrong sign: 1 - openBias - closeBias
MinuteVolume_BiasSign(symbol, dayNum, minuteIdx) ==
    LET baseVol   == 80000 + (rand2(Xor(symbolSeed(symbol), <<170, 48076>>), dayNum)[1] * 1875)
                              \div 1024
        mNoise    == 500 + (rand2(Xor(symbolSeed(symbol), <<0, 4386>>),
                                  dayNum * 400 + minuteIdx)[1]
                              * 1500) \div Half
        openBias  == RoundDiv(Exp(minuteIdx, 40) * 2500, 32768)
        closeBias == RoundDiv(Exp(389 - minuteIdx, 25) * 2000, 32768)
    IN  (((baseVol * mNoise) \div 1000) * (1000 - openBias - closeBias)) \div 390000

\* the volume of getMinuteBar: floor(baseVol * mNoise * (1 + openBias + closeBias) / 390)
\* with mNoise and the bias factor in thousandths
MinuteVolume(symbol, dayNum, minuteIdx) ==
    LET baseVol   == 80000 + (rand2(Xor(symbolSeed(symbol), <<170, 48076>>), dayNum)[1] * 1875)
                              \div 1024
        mNoise    == 500 + (rand2(Xor(symbolSeed(symbol), <<0, 4386>>),
                                  dayNum * 400 + minuteIdx)[1]
                              * 1500) \div Half
        openBias  == RoundDiv(Exp(minuteIdx, 40) * 2500, 32768)
        closeBias == RoundDiv(Exp(389 - minuteIdx, 25) * 2000, 32768)
    IN  (((baseVol * mNoise) \div 1000) * (1000 + openBias + closeBias)) \div 390000

\* high taken over the samples between the first and the last only
getMinuteBar_InnerHigh(symbol, basePrice, dayNum, minuteIdx) ==
    LET startSec == minuteIdx * 60
    IN  Bind([i \in 1..6 |->
                 getPriceAtSecond(symbol, basePrice, dayNum, startSec + SampleOffsets[i])],
             LAMBDA samples :
               [open   |-> samples[1],
                high   |-> SeqMax(SubSeq(samples, 2, 5)),
                low    |-> SeqMin(samples),
                close  |-> samples[6],
                price  |-> samples[6],
                volume |-> MinuteVolume(symbol, dayNum, minuteIdx)])

getMinuteBar(symbol, basePrice, dayNum, minuteIdx) ==
    LET startSec == minuteIdx * 60
    IN  Bind([i \in 1..6 |->
                 getPriceAtSecond(symbol, basePrice, dayNum, startSec + SampleOffsets[i])],
             LAMBDA samples :
               [open   |-> samples[1],
                high   |-> SeqMax(samples),
                low    |-> SeqMin(samples),
                close  |-> samples[6],
                price  |-> samples[6],
                volume |-> MinuteVolume(symbol, dayNum, minuteIdx)])

(***************************************************************************)
(* Derived statistics                                                      *)
(***************************************************************************)
\* the sum of getMinuteBar(symbol, basePrice, dayNum, m).volume for m in from..to
\* (the loop of getDayVolume, split in halves)
RECURSIVE SumVolumes(_, _, _, _)
SumVolumes(symbol, dayNum, from, to) ==
    IF from > to THEN 0
    ELSE IF from = to THEN MinuteVolume(symbol, dayNum, from)
    ELSE LET mid == (from + to) \div 2
         IN  SumVolumes(symbol, dayNum, from, mid) + SumVolumes(symbol, dayNum, mid + 1, to)

getDayVolume(symbol, basePrice, dayNum, currentMarketSec) ==
    LET currentMinute == currentMarketSec \div 60
    IN  SumVolumes(symbol, dayNum, 0, currentMinute)

(***************************************************************************)
(* Trading-day calendar                                                    *)
(***************************************************************************)
\* new Date(d * 86400000).getUTCDay(): 0 = Sunday .. 6 = Saturday (day 0 was a Thursday)
getUTCDay(d) == (d + 4) % 7

\* the loop of getLastTradingDays: `days` collected so far, d the last day examined
RECURSIVE LastTradingDaysLoop(_, _, _)
LastTradingDaysLoop(days, d, count) ==
    IF Len(days) >= count THEN days
    ELSE LET dow == getUTCDay(d - 1)
         IN  LastTradingDaysLoop(IF dow # 0 /\ dow # 6 THEN <<d - 1>> \o days ELSE days,
                                 d - 1, count)

\* the loop with push in place of unshift: newest first
RECURSIVE LastTradingDaysLoopPush(_, _, _)
LastTradingDaysLoopPush(days, d, count) ==
    IF Len(days) >= count THEN days
    ELSE LET dow == getUTCDay(d - 1)
         IN  LastTradingDaysLoopPush(IF dow # 0 /\ dow # 6 THEN Append(days, d - 1) ELSE days,
                                     d - 1, count)

getLastTradingDays_Push(count, upToDay) == LastTradingDaysLoopPush(<<>>, upToDay, count)

\* the loop that examines d before stepping back: upToDay itself may be returned
RECURSIVE LastTradingDaysLoopLate(_, _, _)
LastTradingDaysLoopLate(days, d, count) ==
    IF Len(days) >= count THEN days
    ELSE LET dow == getUTCDay(d)
         IN  LastTradingDaysLoopLate(IF dow # 0 /\ dow # 6 THEN <<d>> \o days ELSE days,
                                     d - 1, count)

getLastTradingDays_Inclusive(count, upToDay) == LastTradingDaysLoopLate(<<>>, upToDay, count)

getLastTradingDays(count, upToDay) == LastTradingDaysLoop(<<>>, upToDay, count)

(***************************************************************************)
(* Market state                                                            *)
(***************************************************************************)
\* the close compared with > in place of >=
getCurrentMarketState_LateClose ==
    LET localSecOfDay == nowSec
        unixSec       == todayDayNum * 86400 + nowSec
    IN  IF localSecOfDay < 34200
        THEN [dayNum |-> 20505, marketSec |-> 0, isOpen |-> FALSE, unixSec |-> unixSec]
        ELSE IF localSecOfDay > 57600
        THEN [dayNum |-> 20505, marketSec |-> 23400, isOpen |-> FALSE, unixSec |-> unixSec]
        ELSE [dayNum |-> 20505, marketSec |-> localSecOfDay - 34200,
              isOpen |-> TRUE, unixSec |-> unixSec]

(***************************************************************************)
(* StockChart: helpers                                                     *)
(***************************************************************************)
\* seededRandom(seed) = x - floor(x), x = sin(seed * 12.9898 + 78.233) * 43758.5453,
\* in units of 1/10000 (truncated). TLA+ has no sine: the values of the formula
\* are tabulated for the seeds generateExtendedData uses (p * 137 + 42 and
\* p * 10000 + i * 13, p < 9, i < 6), for those of ensureOHLCV (seed * 4 + n,
\* seed = i * 100, i < 20, n = 1..4) and for those of enrichWithIntermediates
\* (i * 1000 + j * 7 + n, i < 19, j = 1..3, n = 0, 10, 20, 30, 40).
SeededRandomTable ==
    (0 :> 1829 @@ 1 :> 7400 @@ 2 :> 5643 @@ 3 :> 4547 @@ 4 :> 2724 @@
       7 :> 5037 @@ 13 :> 4013 @@ 14 :> 8490 @@ 17 :> 2378 @@ 21 :> 8519 @@
       24 :> 9335 @@ 26 :> 7658 @@ 27 :> 1548 @@ 31 :> 5636 @@ 34 :> 5701 @@
       37 :> 9606 @@ 39 :> 2621 @@ 41 :> 8539 @@ 42 :> 6398 @@ 44 :> 4980 @@
       47 :> 885 @@ 51 :> 4814 @@ 52 :> 3511 @@ 54 :> 766 @@ 61 :> 2834) @@
    (65 :> 6993 @@ 179 :> 4740 @@ 316 :> 9368 @@ 401 :> 3892 @@ 402 :> 7291 @@
       403 :> 2973 @@ 404 :> 612 @@ 453 :> 5912 @@ 590 :> 3508 @@ 727 :> 7347 @@
       801 :> 6045 @@ 802 :> 22 @@ 803 :> 466 @@ 804 :> 1819 @@ 864 :> 8402 @@
       1001 :> 9867 @@ 1007 :> 1486 @@ 1014 :> 7640 @@ 1017 :> 7551 @@ 1021 :> 652 @@
       1024 :> 1505 @@ 1027 :> 2764 @@ 1031 :> 155 @@ 1034 :> 8594 @@ 1037 :> 1081) @@
    (1041 :> 8950 @@ 1044 :> 8081 @@ 1047 :> 3932 @@ 1051 :> 9630 @@ 1054 :> 9449 @@
       1061 :> 3026 @@ 1138 :> 6256 @@ 1201 :> 7944 @@ 1202 :> 6205 @@ 1203 :> 3961 @@
       1204 :> 2542 @@ 1601 :> 6921 @@ 1602 :> 8878 @@ 1603 :> 4843 @@ 1604 :> 1279 @@
       2001 :> 6552 @@ 2002 :> 2992 @@ 2003 :> 1623 @@ 2004 :> 9435 @@ 2007 :> 7836 @@
       2014 :> 4538 @@ 2017 :> 5503 @@ 2021 :> 1375 @@ 2024 :> 6497 @@ 2027 :> 4642) @@
    (2031 :> 1972 @@ 2034 :> 614 @@ 2037 :> 283 @@ 2041 :> 7782 @@ 2044 :> 8307 @@
       2047 :> 9492 @@ 2051 :> 2441 @@ 2054 :> 1382 @@ 2061 :> 5582 @@ 2401 :> 1116 @@
       2402 :> 5686 @@ 2403 :> 8250 @@ 2404 :> 9618 @@ 2801 :> 8262 @@ 2802 :> 9976 @@
       2803 :> 8090 @@ 2804 :> 6166 @@ 3007 :> 5459 @@ 3014 :> 7994 @@ 3017 :> 9091 @@
       3021 :> 1806 @@ 3024 :> 5071 @@ 3027 :> 6845 @@ 3031 :> 3636 @@ 3034 :> 2610) @@
    (3037 :> 3557 @@ 3041 :> 8798 @@ 3044 :> 411 @@ 3047 :> 105 @@ 3051 :> 3193 @@
       3054 :> 5406 @@ 3061 :> 7742 @@ 3201 :> 8022 @@ 3202 :> 3479 @@ 3203 :> 5458 @@
       3204 :> 8533 @@ 3601 :> 9282 @@ 3602 :> 3846 @@ 3603 :> 1964 @@ 3604 :> 7957 @@
       4001 :> 8444 @@ 4002 :> 4812 @@ 4003 :> 3590 @@ 4004 :> 1309 @@ 4007 :> 1233 @@
       4014 :> 4501 @@ 4017 :> 4978 @@ 4021 :> 2917 @@ 4024 :> 7127 @@ 4027 :> 4538) @@
    (4031 :> 5645 @@ 4034 :> 7430 @@ 4037 :> 1068 @@ 4041 :> 1959 @@ 4044 :> 6342 @@
       4047 :> 6452 @@ 4051 :> 1426 @@ 4054 :> 3721 @@ 4061 :> 1088 @@ 4401 :> 8334 @@
       4402 :> 174 @@ 4403 :> 5526 @@ 4404 :> 2975 @@ 4801 :> 7314 @@ 4802 :> 6595 @@
       4803 :> 4689 @@ 4804 :> 5485 @@ 5007 :> 1326 @@ 5014 :> 9282 @@ 5017 :> 2105 @@
       5021 :> 3988 @@ 5024 :> 7316 @@ 5027 :> 92 @@ 5031 :> 1025 @@ 5034 :> 2428) @@
    (5037 :> 1108 @@ 5041 :> 1276 @@ 5044 :> 208 @@ 5047 :> 6110 @@ 5051 :> 6490 @@
       5054 :> 4233 @@ 5061 :> 8450 @@ 5201 :> 8299 @@ 5202 :> 8961 @@ 5203 :> 3490 @@
       5204 :> 1642 @@ 5601 :> 4081 @@ 5602 :> 3000 @@ 5603 :> 1739 @@ 5604 :> 4262 @@
       6001 :> 8639 @@ 6002 :> 8338 @@ 6003 :> 5703 @@ 6004 :> 3253 @@ 6007 :> 2636 @@
       6014 :> 1952 @@ 6017 :> 6401 @@ 6021 :> 7098 @@ 6024 :> 5642 @@ 6027 :> 706) @@
    (6031 :> 5757 @@ 6034 :> 3639 @@ 6037 :> 9463 @@ 6041 :> 1147 @@ 6044 :> 5539 @@
       6047 :> 6567 @@ 6051 :> 2332 @@ 6054 :> 5104 @@ 6061 :> 5481 @@ 6401 :> 3671 @@
       6402 :> 328 @@ 6403 :> 3263 @@ 6404 :> 2691 @@ 6801 :> 5453 @@ 6802 :> 602 @@
       6803 :> 1098 @@ 6804 :> 1720 @@ 7007 :> 815 @@ 7014 :> 6609 @@ 7017 :> 5810 @@
       7021 :> 6656 @@ 7024 :> 3193 @@ 7027 :> 2505 @@ 7031 :> 9032 @@ 7034 :> 4357) @@
    (7037 :> 1328 @@ 7041 :> 2454 @@ 7044 :> 1196 @@ 7047 :> 7893 @@ 7051 :> 8539 @@
       7054 :> 5006 @@ 7061 :> 5139 @@ 7201 :> 9628 @@ 7202 :> 4144 @@ 7203 :> 3473 @@
       7204 :> 1833 @@ 7601 :> 1216 @@ 7602 :> 4942 @@ 7603 :> 2018 @@ 7604 :> 8568 @@
       8007 :> 2343 @@ 8014 :> 8752 @@ 8017 :> 7031 @@ 8021 :> 1096 @@ 8024 :> 532 @@
       8027 :> 1790 @@ 8031 :> 9283 @@ 8034 :> 8403 @@ 8037 :> 7601 @@ 8041 :> 8167) @@
    (8044 :> 3307 @@ 8047 :> 3420 @@ 8051 :> 8366 @@ 8054 :> 9868 @@ 8061 :> 1559 @@
       9007 :> 443 @@ 9014 :> 452 @@ 9017 :> 6488 @@ 9021 :> 1350 @@ 9024 :> 6890 @@
       9027 :> 7936 @@ 9031 :> 4348 @@ 9034 :> 5748 @@ 9037 :> 781 @@ 9041 :> 5280 @@
       9044 :> 2337 @@ 9047 :> 4841 @@ 9051 :> 1551 @@ 9054 :> 6058 @@ 9061 :> 460 @@
       10000 :> 4240 @@ 10007 :> 7981 @@ 10013 :> 5114 @@ 10014 :> 9971 @@ 10017 :> 5124) @@
    (10021 :> 7431 @@ 10024 :> 8671 @@ 10026 :> 3206 @@ 10027 :> 5641 @@ 10031 :> 5120 @@
       10034 :> 6665 @@ 10037 :> 9127 @@ 10039 :> 5842 @@ 10041 :> 2237 @@ 10044 :> 5173 @@
       10047 :> 5782 @@ 10051 :> 7811 @@ 10052 :> 8545 @@ 10054 :> 3826 @@ 10061 :> 6476 @@
       10065 :> 4727 @@ 11007 :> 8379 @@ 11014 :> 2735 @@ 11017 :> 1990 @@ 11021 :> 5989 @@
       11024 :> 2629 @@ 11027 :> 803 @@ 11031 :> 563 @@ 11034 :> 1653 @@ 11037 :> 5707) @@
    (11041 :> 7461 @@ 11044 :> 5530 @@ 11047 :> 347 @@ 11051 :> 1331 @@ 11054 :> 5545 @@
       11061 :> 5123 @@ 12007 :> 4692 @@ 12014 :> 8187 @@ 12017 :> 7640 @@ 12021 :> 110 @@
       12024 :> 743 @@ 12027 :> 8360 @@ 12031 :> 9441 @@ 12034 :> 9049 @@ 12037 :> 9772 @@
       12041 :> 6916 @@ 12044 :> 807 @@ 12047 :> 3754 @@ 12051 :> 5539 @@ 12054 :> 678 @@
       12061 :> 8420 @@ 13007 :> 6265 @@ 13014 :> 4350 @@ 13017 :> 2543 @@ 13021 :> 6059) @@
    (13024 :> 2821 @@ 13027 :> 1685 @@ 13031 :> 6420 @@ 13034 :> 9439 @@ 13037 :> 2912 @@
       13041 :> 2597 @@ 13044 :> 6322 @@ 13047 :> 973 @@ 13051 :> 4311 @@ 13054 :> 6073 @@
       13061 :> 9006 @@ 14007 :> 7371 @@ 14014 :> 6842 @@ 14017 :> 8874 @@ 14021 :> 7195 @@
       14024 :> 669 @@ 14027 :> 2986 @@ 14031 :> 4287 @@ 14034 :> 1861 @@ 14037 :> 2351 @@
       14041 :> 1517 @@ 14044 :> 4663 @@ 14047 :> 5744 @@ 14051 :> 7467 @@ 14054 :> 7035) @@
    (14061 :> 5513 @@ 15007 :> 3858 @@ 15014 :> 4969 @@ 15017 :> 5792 @@ 15021 :> 3474 @@
       15024 :> 937 @@ 15027 :> 4707 @@ 15031 :> 8931 @@ 15034 :> 9655 @@ 15037 :> 2782 @@
       15041 :> 5253 @@ 15044 :> 7622 @@ 15047 :> 3711 @@ 15051 :> 9147 @@ 15054 :> 1019 @@
       15061 :> 7575 @@ 16007 :> 4213 @@ 16014 :> 212 @@ 16017 :> 9799 @@ 16021 :> 5644 @@
       16024 :> 1056 @@ 16027 :> 2932 @@ 16031 :> 3696 @@ 16034 :> 3912 @@ 16037 :> 6751) @@
    (16041 :> 9605 @@ 16044 :> 4634 @@ 16047 :> 1205 @@ 16051 :> 4088 @@ 16054 :> 5971 @@
       16061 :> 2131 @@ 17007 :> 3163 @@ 17014 :> 9936 @@ 17017 :> 505 @@ 17021 :> 6166 @@
       17024 :> 7907 @@ 17027 :> 8827 @@ 17031 :> 9979 @@ 17034 :> 7204 @@ 17037 :> 8614 @@
       17041 :> 1344 @@ 17044 :> 3804 @@ 17047 :> 3083 @@ 17051 :> 6876 @@ 17054 :> 6912 @@
       17061 :> 8342 @@ 18007 :> 6977 @@ 18014 :> 7498 @@ 18017 :> 1569 @@ 18021 :> 1087) @@
    (18024 :> 2728 @@ 18027 :> 4659 @@ 18031 :> 6963 @@ 18034 :> 1437 @@ 18037 :> 548 @@
       18041 :> 5444 @@ 18044 :> 7173 @@ 18047 :> 8742 @@ 18051 :> 6779 @@ 18054 :> 4192 @@
       18061 :> 3230 @@ 20000 :> 7731 @@ 20013 :> 9993 @@ 20026 :> 1786 @@ 20039 :> 5396 @@
       20052 :> 1555 @@ 20065 :> 9884 @@ 30000 :> 8666 @@ 30013 :> 1952 @@ 30026 :> 798 @@
       30039 :> 410 @@ 30052 :> 8949 @@ 30065 :> 8724 @@ 40000 :> 8671 @@ 40013 :> 255) @@
    (40026 :> 3713 @@ 40039 :> 1865 @@ 40052 :> 1031 @@ 40065 :> 9679 @@ 50000 :> 7711 @@
       50013 :> 5240 @@ 50026 :> 6570 @@ 50039 :> 3172 @@ 50052 :> 995 @@ 50065 :> 27 @@
       60000 :> 9861 @@ 60013 :> 4258 @@ 60026 :> 2682 @@ 60039 :> 2477 @@ 60052 :> 6970 @@
       60065 :> 5990 @@ 70000 :> 379 @@ 70013 :> 4022 @@ 70026 :> 6361 @@ 70039 :> 3525 @@
       70052 :> 2124 @@ 70065 :> 4703 @@ 80000 :> 6909 @@ 80013 :> 8982 @@ 80026 :> 4643) @@
    (80039 :> 5098 @@ 80052 :> 8448 @@ 80065 :> 1635)

seededRandom(seed) == SeededRandomTable[seed]

\* the civil month and day <<m, d>> of a day number (days since 1970-01-01)
MonthDay(dayNum) ==
    LET z   == dayNum + 719468
        era == z \div 146097
        doe == z - era * 146097
        yoe == (doe - doe \div 1460 + doe \div 36524 - doe \div 146096) \div 365
        doy == doe - (365 * yoe + yoe \div 4 - yoe \div 100)
        mp  == (5 * doy + 2) \div 153
    IN  <<IF mp < 10 THEN mp + 3 ELSE mp - 9, doy - (153 * mp + 2) \div 5 + 1>>

\* new Date(2024, 0, 17) as a day number, a Wednesday
RefDate == 19739

\* getTradingDays(endDate, count): the count weekdays up to and including endDate,
\* oldest first (Date.getDay of a calendar day is the day of the week of its number)
RECURSIVE TradingDaysLoop(_, _, _)
TradingDaysLoop(days, d, count) ==
    IF Len(days) >= count THEN days
    ELSE LET dow == getUTCDay(d)
         IN  TradingDaysLoop(IF dow # 0 /\ dow # 6 THEN <<d>> \o days ELSE days,
                             d - 1, count)

getTradingDays(endDate, count) == TradingDaysLoop(<<>>, endDate, count)

\* a label "M/D time" or "MM/DD time": the month and day, whether they are
\* zero-padded, and the time of day ("" for none)
Label(md, padded, time) == [md |-> md, padded |-> padded, time |-> time]
fmtMD(d) == Label(MonthDay(d), FALSE, "")
fmtMMDD(d) == Label(MonthDay(d), TRUE, "")
\* `${prefix} ${t}`
WithTime(prefix, t) == [prefix EXCEPT !.time = t]
\* the empty string ''
EmptyLabel == Label(<<0, 0>>, FALSE, "")

TIMES_27 == <<"9:30", "9:45", "10:00", "10:15", "10:30", "10:45",
              "11:00", "11:15", "11:30", "11:45", "12:00", "12:15",
              "12:30", "12:45", "1:00", "1:15", "1:30", "1:45",
              "2:00", "2:15", "2:30", "2:45", "3:00", "3:15",
              "3:30", "3:45", "4:00">>
TIMES_14 == <<"9:30", "10:00", "10:30", "11:00", "11:30", "12:00",
              "12:30", "1:00", "1:30", "2:00", "2:30", "3:00", "3:30", "4:00">>
TIMES_7 == <<"9:30", "10:30", "11:30", "12:30", "1:30", "2:30", "3:30">>
TIMES_3 == <<"10:30", "1:30", "3:30">>

pickIntradayTimes(pointsPerDay) ==
    IF pointsPerDay <= 3 THEN TIMES_3
    ELSE IF pointsPerDay <= 7 THEN TIMES_7
    ELSE IF pointsPerDay <= 14 THEN TIMES_14
    ELSE TIMES_27

\* days.flatMap(day => times.map(t => `${prefix(day)} ${t}`))
DayTimeLabels(days, times, padded) ==
    [k \in 1..(Len(days) * Len(times)) |->
        LET day == days[((k - 1) \div Len(times)) + 1]
        IN  WithTime(IF padded THEN fmtMMDD(day) ELSE fmtMD(day),
                     times[((k - 1) % Len(times)) + 1])]

(***************************************************************************)
(* StockChart: multi-period data extension                                 *)
(***************************************************************************)
\* a point is a record with a field "time" or a field "date" (its label) and its
\* other fields; the key is the one the first point has
TimeKeyOf(rawData) == IF "time" \in DOMAIN rawData[1] THEN "time" ELSE "date"

\* d.price ?? d.close
TemplatePrice(point) == IF "price" \in DOMAIN point THEN point.price ELSE point.close

PeriodsToAdd(timeRange) == IF timeRange = "1d" THEN 9 ELSE IF timeRange = "5d" THEN 3 ELSE 2

\* the labels of the extended window, before trimming
ExtendedLabels(timeRange, periodLen, totalPeriods) ==
    IF timeRange = "1d"
    THEN DayTimeLabels(getTradingDays(RefDate, totalPeriods),
                       pickIntradayTimes(periodLen), FALSE)
    ELSE IF timeRange = "5d"
    THEN DayTimeLabels(getTradingDays(RefDate, 5 * totalPeriods),
                       pickIntradayTimes((2 * periodLen + 5) \div 10), TRUE)
    ELSE LET days == getTradingDays(RefDate, periodLen * totalPeriods)
         IN  [k \in 1..Len(days) |-> fmtMMDD(days[k])]

\* trimmed to the last totalPoints labels, or padded in front with ''
TrimLabels(labels, totalPoints) ==
    IF Len(labels) > totalPoints
    THEN SubSeq(labels, Len(labels) - totalPoints + 1, Len(labels))
    ELSE [k \in 1..(totalPoints - Len(labels)) |-> EmptyLabel] \o labels

\* templateRange * (0.8 + r * 1.5) for period p (0-based)
Drift(templateRange, p) ==
    RoundDiv(templateRange * (8000 + (seededRandom(p * 137 + 42) * 3) \div 2), 10000)

\* cumOffset after the first k steps of the backward walk
RECURSIVE CumOffset(_, _)
CumOffset(templateRange, k) ==
    IF k = 0 THEN 0 ELSE CumOffset(templateRange, k - 1) - Drift(templateRange, k - 1)

\* the price of point i (0-based) of prior period p (0-based)
PriorPrice(templatePrice, off, p, i) ==
    LET base  == templatePrice + off
        noise == RoundDiv(RoundDiv(base * ((seededRandom(p * 10000 + i * 13) \div 10) - 500),
                                   1000) * 6, 1000)
    IN  ToFixed2(base + noise)

\* the current period rebuilt from its price alone, the other fields dropped
generateExtendedData_PriceOnly(rawData, timeRange) ==
    LET periodsToAdd == PeriodsToAdd(timeRange)
        periodLen    == Len(rawData)
        timeKey      == TimeKeyOf(rawData)
        labels       == TrimLabels(ExtendedLabels(timeRange, periodLen, 1 + periodsToAdd),
                                   periodLen * (1 + periodsToAdd))
    IN  [data |-> [k \in 1..(periodLen * (1 + periodsToAdd)) |->
                     (timeKey :> labels[k])
                       @@ [price |-> TemplatePrice(rawData[((k - 1) % periodLen) + 1])]],
         totalPeriods |-> 1 + periodsToAdd,
         periodLen    |-> periodLen]

generateExtendedData(rawData, timeRange) ==
    IF Len(rawData) < 2
    THEN [data |-> rawData, totalPeriods |-> 1, periodLen |-> Len(rawData)]
    ELSE
    LET periodsToAdd   == PeriodsToAdd(timeRange)
        periodLen      == Len(rawData)
        timeKey        == TimeKeyOf(rawData)
        totalPeriods   == 1 + periodsToAdd
        totalPoints    == periodLen * totalPeriods
        templatePrices == [i \in 1..periodLen |-> TemplatePrice(rawData[i])]
        spread         == SeqMax(templatePrices) - SeqMin(templatePrices)
        templateRange  == IF spread = 0 THEN 10000 ELSE spread
    IN  Bind(TrimLabels(ExtendedLabels(timeRange, periodLen, totalPeriods), totalPoints),
             LAMBDA labels :
        Bind([p \in 0..(periodsToAdd - 1) |-> CumOffset(templateRange, periodsToAdd - p)],
             LAMBDA offsets :
          [data |->
              [k \in 1..totalPoints |->
                 LET p == (k - 1) \div periodLen
                     i == (k - 1) % periodLen
                 IN  IF p < periodsToAdd
                     THEN (timeKey :> labels[k])
                            @@ [price |-> PriorPrice(templatePrices[i + 1], offsets[p], p, i)]
                     ELSE (timeKey :> (IF labels[k] # EmptyLabel THEN labels[k]
                                       ELSE rawData[i + 1][timeKey]))
                            @@ rawData[i + 1]],
           totalPeriods |-> totalPeriods,
           periodLen    |-> periodLen]))

(***************************************************************************)
(* Chart data generators                                                   *)
(***************************************************************************)
\* "h:mm AM" / "h:mm PM": the hour on the 12-hour clock, the minute and the half
\* of the day
fmtMinuteTime(minuteIdx) ==
    LET totalMin == 9 * 60 + 30 + minuteIdx
        h        == totalMin \div 60
    IN  [h12  |-> IF h > 12 THEN h - 12 ELSE h,
         m    |-> totalMin % 60,
         ampm |-> IF h < 12 THEN "AM" ELSE "PM"]

\* "MM/DD"
fmtDate(dayNum) == Label(MonthDay(dayNum), TRUE, "")

\* "MM/DD h:mm AM"
fmtDatetime(dayNum, minuteIdx) == Label(MonthDay(dayNum), TRUE, fmtMinuteTime(minuteIdx))

\* The loops of the generators are modelled in two steps: the pairs
\* <<day, minute>> for which getMinuteBar is called, in the order of the calls,
\* and the entries pushed for them.

\* the loop of generate1DData without its cap at minute 389
generate1DMinutes_NoCap(dayNum, currentMarketSec) ==
    [k \in 1..((currentMarketSec \div 60) + 1) |-> <<dayNum, k - 1>>]

\* the loop of generate1DData: m = 0 .. upToMinute
generate1DMinutes(dayNum, currentMarketSec) ==
    LET upToMinute == Min(currentMarketSec \div 60, 389)
    IN  [k \in 1..(upToMinute + 1) |-> <<dayNum, k - 1>>]

generate1DData(symbol, basePrice, dayNum, currentMarketSec) ==
    Bind(generate1DMinutes(dayNum, currentMarketSec), LAMBDA asked :
      [k \in 1..Len(asked) |->
          [time |-> fmtMinuteTime(asked[k][2]), minuteIdx |-> asked[k][2]]
            @@ getMinuteBar(symbol, basePrice, dayNum, asked[k][2])])

hourlyMins == <<0, 60, 120, 180, 240, 300, 360>>

\* the inner loop of generate5DData for day d from hourlyMins[i] on: it breaks at
\* the first minute of today that lies after the current minute
RECURSIVE HourlyMinutesFrom(_, _, _, _)
HourlyMinutesFrom(d, dayNum, currentMinute, i) ==
    IF i > Len(hourlyMins) THEN <<>>
    ELSE IF d = dayNum /\ hourlyMins[i] > currentMinute THEN <<>>
    ELSE <<<<d, hourlyMins[i]>>>> \o HourlyMinutesFrom(d, dayNum, currentMinute, i + 1)

\* the outer loop of generate5DData over days[j], days[j + 1], ...
RECURSIVE HourlyMinutesOfDays(_, _, _, _)
HourlyMinutesOfDays(days, dayNum, currentMinute, j) ==
    IF j > Len(days) THEN <<>>
    ELSE HourlyMinutesFrom(days[j], dayNum, currentMinute, 1)
           \o HourlyMinutesOfDays(days, dayNum, currentMinute, j + 1)

\* the loops of generate5DData with the break left out: all seven bars of today
generate5DMinutes_NoBreak(dayNum, currentMarketSec) ==
    HourlyMinutesOfDays(Append(getLastTradingDays(4, dayNum), dayNum),
                        dayNum, 360, 1)

generate5DMinutes(dayNum, currentMarketSec) ==
    LET days          == Append(getLastTradingDays(4, dayNum), dayNum)
        currentMinute == currentMarketSec \div 60
    IN  HourlyMinutesOfDays(days, dayNum, currentMinute, 1)

generate5DData(symbol, basePrice, dayNum, currentMarketSec) ==
    Bind(generate5DMinutes(dayNum, currentMarketSec), LAMBDA asked :
      [k \in 1..Len(asked) |->
          [date |-> fmtDatetime(asked[k][1], asked[k][2])]
            @@ getMinuteBar(symbol, basePrice, asked[k][1], asked[k][2])])

\* generate1MData with today's bar taken at the current minute, uncapped
generate1MMinutes_NoCap(dayNum, currentMarketSec) ==
    LET days == getLastTradingDays(22, dayNum)
    IN  [k \in 1..Len(days) |-> <<days[k], 389>>]
          \o <<<<dayNum, currentMarketSec \div 60>>>>

\* the closing minute of each of the 22 days, then today's current minute
generate1MMinutes(dayNum, currentMarketSec) ==
    LET days        == getLastTradingDays(22, dayNum)
        todayMinute == Min(currentMarketSec \div 60, 389)
    IN  [k \in 1..Len(days) |-> <<days[k], 389>>] \o <<<<dayNum, todayMinute>>>>

generate1MData(symbol, basePrice, dayNum, currentMarketSec) ==
    Bind(generate1MMinutes(dayNum, currentMarketSec), LAMBDA asked :
      [k \in 1..Len(asked) |->
          [date |-> fmtDate(asked[k][1])]
            @@ getMinuteBar(symbol, basePrice, asked[k][1], asked[k][2])])

\* the loop of getPreviousClose after i iterations
RECURSIVE PreviousCloseDay(_, _)
PreviousCloseDay(prevDay, i) ==
    IF i >= 5 THEN prevDay
    ELSE LET dow == getUTCDay(prevDay)
         IN  IF dow # 0 /\ dow # 6 THEN prevDay ELSE PreviousCloseDay(prevDay - 1, i + 1)

\* the close of the day before, whatever day of the week it is
getPreviousClose_NoSkip(symbol, basePrice, dayNum) ==
    getMinuteBar(symbol, basePrice, dayNum - 1, 389).close

getPreviousClose(symbol, basePrice, dayNum) ==
    getMinuteBar(symbol, basePrice, PreviousCloseDay(dayNum - 1, 0), 389).close

(***************************************************************************)
(* Market constants, the wall clock and the inputs of the engine calls     *)
(***************************************************************************)
MARKET_OPEN_SEC == 34200
MARKET_CLOSE_SEC == 57600
MARKET_DURATION == 23400

\* Math.floor(new Date('2026-02-21T00:00:00Z').getTime() / 86400000)
SIMULATED_DAY_NUM == 20505

\* the clock's time zone is taken to be UTC: the local second of the day is nowSec
getCurrentMarketState ==
    LET localSecOfDay == nowSec
        unixSec       == todayDayNum * 86400 + nowSec
    IN  IF localSecOfDay < MARKET_OPEN_SEC
        THEN [dayNum |-> SIMULATED_DAY_NUM, marketSec |-> 0,
              isOpen |-> FALSE, unixSec |-> unixSec]
        ELSE IF localSecOfDay >= MARKET_CLOSE_SEC
        THEN [dayNum |-> SIMULATED_DAY_NUM, marketSec |-> MARKET_DURATION,
              isOpen |-> FALSE, unixSec |-> unixSec]
        ELSE [dayNum |-> SIMULATED_DAY_NUM, marketSec |-> localSecOfDay - MARKET_OPEN_SEC,
              isOpen |-> TRUE, unixSec |-> unixSec]

\* how many days the wall clock runs past the simulated day
MaxClockDays == 3
\* how many days before the simulated day a call may ask for
MaxDaysBack == 2

\* "AAA" and "AAPL" as sequences of character codes
Symbols == {<<65, 65, 65>>, <<65, 65, 80, 76>>}
\* $0.001, $100.00 and $187.34, in mills
BasePrices == {1, 100000, 187340}
DayNums == (SIMULATED_DAY_NUM - MaxDaysBack) .. (SIMULATED_DAY_NUM + 1)
MarketSecs == {-60, 0, 59, 3600, 11700, 23400, 23459}

ClockInit ==
    /\ nowDay = SIMULATED_DAY_NUM
    /\ nowSec = 0

\* a day passes on the wall clock, between two calls
DayPasses ==
    /\ call = Idle
    /\ nowDay < SIMULATED_DAY_NUM + MaxClockDays
    /\ nowDay' = nowDay + 1
    /\ UNCHANGED <<nowSec, call, prev>>

\* the caller takes the result; the engine is ready for the next call
Return ==
    /\ call # Idle
    /\ prev' = call
    /\ call' = Idle
    /\ UNCHANGED <<nowDay, nowSec>>

\* how a call of the engine ends: the engine holds no throw statement and its
\* arithmetic raises no exception, so a call ends by returning its value
Returned == "returned"

(***************************************************************************)
(* The price kernel called at the current wall clock                       *)
(***************************************************************************)
PriceCall(symbol, basePrice, dayNum, marketSec) ==
    [op        |-> "getPriceAtSecond",
     symbol    |-> symbol,
     basePrice |-> basePrice,
     dayNum    |-> dayNum,
     marketSec |-> marketSec,
     today     |-> todayDayNum,
     dayOpen   |-> getDayOpenPrice(symbolSeed(symbol), basePrice, dayNum),
     price     |-> getPriceAtSecond(symbol, basePrice, dayNum, marketSec),
     outcome   |-> Returned]

CallPriceAtSecond ==
    /\ call = Idle
    /\ prev = Idle
    /\ \E symbol \in Symbols, basePrice \in BasePrices,
          dayNum \in DayNums, marketSec \in MarketSecs :
          call' = PriceCall(symbol, basePrice, dayNum, marketSec)
    /\ UNCHANGED <<nowDay, nowSec, prev>>

\* a second, independent evaluation with the arguments of the previous one
CallPriceAtSecondAgain ==
    /\ call = Idle
    /\ prev # Idle
    /\ prev.op = "getPriceAtSecond"
    /\ call' = PriceCall(prev.symbol, prev.basePrice, prev.dayNum, prev.marketSec)
    /\ UNCHANGED <<nowDay, nowSec, prev>>

InitPrice == ClockInit /\ call = Idle /\ prev = Idle

NextPrice ==
    \/ DayPasses
    \/ CallPriceAtSecond
    \/ CallPriceAtSecondAgain
    \/ Return

SpecPrice == InitPrice /\ [][NextPrice]_vars

IsPriceCall(c) == c # Idle /\ c.op = "getPriceAtSecond"

SameArguments(c, d) ==
    /\ c.symbol = d.symbol
    /\ c.basePrice = d.basePrice
    /\ c.dayNum = d.dayNum
    /\ c.marketSec = d.marketSec

\* C1 (as claimed): two evaluations of getPriceAtSecond with the same arguments
\* return identical results, whatever the wall-clock date of each evaluation.
C1_Determinism ==
    (IsPriceCall(call) /\ IsPriceCall(prev) /\ SameArguments(call, prev))
        => call.price = prev.price

\* C3: getPriceAtSecond(symbol, basePrice, dayNum, marketSec) is at least
\* 0.9 * getDayOpenPrice(symbolSeed(symbol), basePrice, dayNum)
\* (price in tenth-mills, dayOpen in mills: 0.9 * dayOpen is 9 * dayOpen).
C3_FloorInvariant ==
    IsPriceCall(call) => call.price >= 9 * call.dayOpen

\* a call whose rounded price (0.00) lies under the floor, so that the floor is returned
C3_Witness ==
    /\ IsPriceCall(call)
    /\ call.basePrice = 1
    /\ call.price = 9 * call.dayOpen
    /\ ToFixed2(PriceSum(symbolSeed(call.symbol), call.dayOpen, call.dayNum,
                         call.marketSec)) < call.price

\* C7: getDayOpenPrice returns basePrice exactly, without any drift step,
\* whenever dayNum >= todayDayNum().
C7_TodayPassThrough ==
    (IsPriceCall(call) /\ call.dayNum >= call.today)
        => call.dayOpen = call.basePrice

\* after the wall clock has moved: a call for the new wall-clock day, whose
\* previous evaluation was for a day still ahead of the clock
C7_Witness ==
    /\ IsPriceCall(call)
    /\ call.dayNum = call.today
    /\ call.today > SIMULATED_DAY_NUM
    /\ IsPriceCall(prev)
    /\ prev.dayNum > prev.today

IsScenarioC8(c) ==
    /\ IsPriceCall(c)
    /\ c.symbol = <<65, 65, 65>>
    /\ c.basePrice = 100000
    /\ c.dayNum = c.today
    /\ c.marketSec = 0

\* C8 (as claimed): "AAA", basePrice 100.00, dayNum = today, marketSec = 0
\* returns exactly 100.00.
C8_ExactlyBasePrice ==
    IsScenarioC8(call) => call.price = 1000000

\* C8 (amended): in that scenario only the trend arc contributes nothing; the
\* result is 100.00 plus the four noise layers at t = dayNum * 30000, rounded to
\* cents, and so lies within 2.40 (twice the volatility unit) and half a cent
\* of 100.00.
C8_NoiseOnlyAtOpen ==
    IsScenarioC8(call) =>
        /\ call.price = ToFixed2(call.dayOpen * 10
                          + NoiseLayers(symbolSeed(call.symbol), call.dayOpen,
                                        call.dayNum * 30000))
        /\ Abs(call.price - 1000000) <= 24000 + 50

C8_Witness ==
    /\ IsScenarioC8(call)
    /\ call.price # 1000000

\* C15 (as claimed): for a positive basePrice and marketSec in 0..23400 the
\* price returned is strictly positive and a whole number of cents (a multiple
\* of 100 tenth-mills): the unrounded floor 0.9 * dayOpen is never returned.
C15_PositiveWholeCents ==
    (IsPriceCall(call) /\ call.basePrice > 0 /\ call.marketSec \in 0..MARKET_DURATION)
        => (call.price > 0 /\ call.price % 100 = 0)

(***************************************************************************)
(* Minute bars and the day's volume                                        *)
(***************************************************************************)
MinuteIdxs == 0..390
BarDays == {SIMULATED_DAY_NUM - 1, SIMULATED_DAY_NUM}
BarPrices == {1, 100000}
\* the seconds at which a sequence of getDayVolume calls starts, and its step
VolumeStarts == {0, 59}
VolumeStep == 5 * 60

BarCall(symbol, basePrice, dayNum, minuteIdx) ==
    [op        |-> "getMinuteBar",
     symbol    |-> symbol,
     basePrice |-> basePrice,
     dayNum    |-> dayNum,
     minuteIdx |-> minuteIdx,
     bar       |-> getMinuteBar(symbol, basePrice, dayNum, minuteIdx),
     outcome   |-> Returned]

CallMinuteBar ==
    /\ call = Idle
    /\ \E symbol \in Symbols, basePrice \in BarPrices,
          dayNum \in BarDays, minuteIdx \in MinuteIdxs :
          call' = BarCall(symbol, basePrice, dayNum, minuteIdx)
    /\ UNCHANGED <<nowDay, nowSec, prev>>

VolumeCall(symbol, basePrice, dayNum, currentMarketSec) ==
    [op               |-> "getDayVolume",
     symbol           |-> symbol,
     basePrice        |-> basePrice,
     dayNum           |-> dayNum,
     currentMarketSec |-> currentMarketSec,
     total            |-> getDayVolume(symbol, basePrice, dayNum, currentMarketSec)]

CallDayVolume ==
    /\ call = Idle
    /\ \E symbol \in Symbols, currentMarketSec \in VolumeStarts :
          call' = VolumeCall(symbol, 100000, SIMULATED_DAY_NUM, currentMarketSec)
    /\ UNCHANGED <<nowDay, nowSec, prev>>

\* the market second has advanced and the statistic is computed again
CallDayVolumeLater ==
    /\ call # Idle
    /\ call.op = "getDayVolume"
    /\ call.currentMarketSec + VolumeStep <= MARKET_DURATION
    /\ prev' = call
    /\ call' = VolumeCall(call.symbol, call.basePrice, call.dayNum,
                          call.currentMarketSec + VolumeStep)
    /\ UNCHANGED <<nowDay, nowSec>>

InitBar == ClockInit /\ call = Idle /\ prev = Idle

NextBar ==
    \/ CallMinuteBar
    \/ CallDayVolume
    \/ CallDayVolumeLater

SpecBar == InitBar /\ [][NextBar]_vars

IsBarCall(c) == c # Idle /\ c.op = "getMinuteBar"
IsVolumeCall(c) == c # Idle /\ c.op = "getDayVolume"

\* C2: the bar returned by getMinuteBar satisfies low <= open <= high and
\* low <= close <= high.
C2_BarConsistency ==
    IsBarCall(call) =>
        /\ call.bar.low <= call.bar.open
        /\ call.bar.open <= call.bar.high
        /\ call.bar.low <= call.bar.close
        /\ call.bar.close <= call.bar.high

\* a bar whose open and close lie strictly inside its range
C2_Witness ==
    /\ IsBarCall(call)
    /\ call.bar.low < call.bar.open
    /\ call.bar.open < call.bar.high
    /\ call.bar.low < call.bar.close
    /\ call.bar.close < call.bar.high

\* C6: every volume produced by getMinuteBar (minuteIdx in 0..390) is a positive
\* integer, and getDayVolume does not decrease as the market second advances.
C6_VolumePositivity ==
    /\ IsBarCall(call) => (call.bar.volume \in Nat /\ call.bar.volume >= 1)
    /\ (IsVolumeCall(call) /\ IsVolumeCall(prev)
          /\ call.symbol = prev.symbol /\ call.dayNum = prev.dayNum
          /\ prev.currentMarketSec <= call.currentMarketSec)
         => prev.total <= call.total

\* the volume at the close, minute 390 included, after the volume five minutes before
C6_Witness ==
    /\ IsVolumeCall(call)
    /\ call.currentMarketSec = MARKET_DURATION
    /\ IsVolumeCall(prev)
    /\ prev.currentMarketSec = MARKET_DURATION - VolumeStep
    /\ call.total >= prev.total + 5

(***************************************************************************)
(* The trading-day calendar                                                *)
(***************************************************************************)
\* the largest count asked for (generate1MData asks for 22)
MaxCount == 22
\* up-to days: the fortnight around the simulated day, and the days around the epoch
UpToDays == ((SIMULATED_DAY_NUM - 7) .. (SIMULATED_DAY_NUM + 7)) \cup (-3 .. 3)

CallLastTradingDays ==
    /\ call = Idle
    /\ \E count \in 0..MaxCount, upToDay \in UpToDays :
          call' = [op      |-> "getLastTradingDays",
                   count   |-> count,
                   upToDay |-> upToDay,
                   days    |-> getLastTradingDays(count, upToDay)]
    /\ UNCHANGED <<nowDay, nowSec, prev>>

InitCalendar == ClockInit /\ call = Idle /\ prev = Idle

SpecCalendar == InitCalendar /\ [][CallLastTradingDays]_vars

IsCalendarCall(c) == c # Idle /\ c.op = "getLastTradingDays"

IsWeekend(d) == getUTCDay(d) = 0 \/ getUTCDay(d) = 6

\* C4: getLastTradingDays(count, upToDay) returns exactly count day numbers, none
\* a Saturday or Sunday, in strictly increasing order.
C4_CalendarCorrectness ==
    IsCalendarCall(call) =>
        /\ Len(call.days) = call.count
        /\ \A i \in 1..Len(call.days) : ~IsWeekend(call.days[i])
        /\ \A i \in 1..(Len(call.days) - 1) : call.days[i] < call.days[i + 1]

\* the 22 days asked for by generate1MData for the simulated day
C4_Witness ==
    /\ IsCalendarCall(call)
    /\ call.count = 22
    /\ call.upToDay = SIMULATED_DAY_NUM
    /\ Len(call.days) = 22

\* C5: the list holds the most recent weekdays strictly before upToDay, none
\* skipped; when upToDay is a Monday its last entry is the Friday upToDay - 3.
C5_MostRecentWeekdays ==
    (IsCalendarCall(call) /\ call.count >= 1) =>
        /\ \A i \in 1..Len(call.days) : call.days[i] < call.upToDay
        /\ \A d \in call.days[1] .. (call.upToDay - 1) :
              ~IsWeekend(d) => \E i \in 1..Len(call.days) : call.days[i] = d
        /\ getUTCDay(call.upToDay) = 1 => call.days[Len(call.days)] = call.upToDay - 3

\* 22 days asked for up to a Monday: the list ends on the Friday before
C5_Witness ==
    /\ IsCalendarCall(call)
    /\ call.count = 22
    /\ getUTCDay(call.upToDay) = 1
    /\ call.days[22] = call.upToDay - 3
    /\ getUTCDay(call.days[22]) = 5

(***************************************************************************)
(* The market state read from the wall clock                               *)
(***************************************************************************)
\* the wall clock moves in steps of ten minutes
ClockStep == 10 * 60
\* the seconds after midnight at which the clock is first read
ClockStarts == {0, 1, ClockStep - 1}

\* ten minutes pass on the wall clock; the last state read is dropped
TimePasses ==
    /\ IF nowSec + ClockStep < 86400
       THEN nowSec' = nowSec + ClockStep /\ nowDay' = nowDay
       ELSE /\ nowDay < SIMULATED_DAY_NUM + MaxClockDays
            /\ nowSec' = nowSec + ClockStep - 86400
            /\ nowDay' = nowDay + 1
    /\ call' = Idle
    /\ UNCHANGED prev

CallCurrentMarketState ==
    /\ call = Idle
    /\ call' = [op            |-> "getCurrentMarketState",
                localSecOfDay |-> nowSec,
                state         |-> getCurrentMarketState]
    /\ UNCHANGED <<nowDay, nowSec, prev>>

InitMarket ==
    /\ nowDay = SIMULATED_DAY_NUM
    /\ nowSec \in ClockStarts
    /\ call = Idle
    /\ prev = Idle

NextMarket ==
    \/ TimePasses
    \/ CallCurrentMarketState

SpecMarket == InitMarket /\ [][NextMarket]_vars

IsMarketCall(c) == c # Idle /\ c.op = "getCurrentMarketState"

\* C10: marketSec is in [0, 23400]: 0 and closed before 34200, 23400 and closed
\* from 57600 on, localSecOfDay - 34200 and open in between; dayNum is always
\* SIMULATED_DAY_NUM.
C10_MarketState ==
    IsMarketCall(call) =>
        LET st == call.state
            t  == call.localSecOfDay
        IN  /\ st.marketSec \in 0..23400
            /\ st.dayNum = SIMULATED_DAY_NUM
            /\ t < 34200 => (st.marketSec = 0 /\ st.isOpen = FALSE)
            /\ t >= 57600 => (st.marketSec = 23400 /\ st.isOpen = FALSE)
            /\ (t >= 34200 /\ t < 57600) => (st.marketSec = t - 34200 /\ st.isOpen = TRUE)

\* the clock read at 16:00:00 sharp on a later day: closed, the full session shown
C10_Witness ==
    /\ IsMarketCall(call)
    /\ call.localSecOfDay = 57600
    /\ nowDay > SIMULATED_DAY_NUM
    /\ call.state.marketSec = 23400
    /\ ~call.state.isOpen

(***************************************************************************)
(* The chart's extension of a series                                       *)
(***************************************************************************)
\* the longest input series
MaxLen == 3
TimeRanges == {"1d", "5d", "1m"}
TimeKeys == {"time", "date"}
\* $99.00, $100.00 and $101.25 in tenth-mills
PointPrices == {990000, 1000000, 1012500}
\* $1.00 and $5.00: a series that moves by several times its lowest price
LowPrices == {10000, 50000}

\* the label the caller gave input point i
RawLabel(i) == Label(<<0, i>>, FALSE, "raw")

\* an input point: its label under timeKey and the fields of a bar, with or
\* without the field price
RawPoint(timeKey, hasPrice, i, price) ==
    IF hasPrice
    THEN (timeKey :> RawLabel(i))
           @@ [price |-> price, close |-> price, open |-> price - 100, volume |-> 1000 + i]
    ELSE (timeKey :> RawLabel(i))
           @@ [close |-> price, open |-> price - 100, volume |-> 1000 + i]

RawSeries(timeKey, hasPrice, prices) ==
    [i \in 1..Len(prices) |-> RawPoint(timeKey, hasPrice, i, prices[i])]

CallGenerateExtendedData ==
    /\ call = Idle
    /\ \E timeRange \in TimeRanges, timeKey \in TimeKeys, n \in 0..MaxLen :
         \E prices \in [1..n -> PointPrices] \cup [1..n -> LowPrices],
            hasPrice \in BOOLEAN :
            call' = [op        |-> "generateExtendedData",
                     timeRange |-> timeRange,
                     timeKey   |-> timeKey,
                     rawData   |-> RawSeries(timeKey, hasPrice, prices),
                     result    |-> generateExtendedData(RawSeries(timeKey, hasPrice, prices),
                                                        timeRange)]
    /\ UNCHANGED <<nowDay, nowSec, prev>>

InitChart == ClockInit /\ call = Idle /\ prev = Idle

SpecChart == InitChart /\ [][CallGenerateExtendedData]_vars

IsExtendCall(c) == c # Idle /\ c.op = "generateExtendedData"

\* a point without its label
WithoutLabel(point, timeKey) == [f \in (DOMAIN point) \ {timeKey} |-> point[f]]

\* C9: for n >= 2 input points the result has n * (1 + periodsToAdd) points
\* (9 periods added for '1d', 3 for '5d', 2 otherwise); its last n points equal
\* the input points in every field except the label; the points before them are
\* synthesized ones, a label and a price.
C9_CurrentPeriodPreserved ==
    (IsExtendCall(call) /\ Len(call.rawData) >= 2) =>
        LET n     == Len(call.rawData)
            added == IF call.timeRange = "1d" THEN 9
                     ELSE IF call.timeRange = "5d" THEN 3 ELSE 2
            data  == call.result.data
        IN  /\ Len(data) = n * (1 + added)
            /\ \A i \in 1..n :
                  WithoutLabel(data[added * n + i], call.timeKey)
                    = WithoutLabel(call.rawData[i], call.timeKey)
            /\ \A k \in 1..(added * n) : DOMAIN data[k] = {call.timeKey, "price"}

\* a one-day series of three points extended to ten periods: the current period
\* is relabelled, the nine periods before it are shifted down
C9_Witness ==
    /\ IsExtendCall(call)
    /\ call.timeRange = "1d"
    /\ Len(call.rawData) = 3
    /\ Len(call.result.data) = 30
    /\ call.result.data[28][call.timeKey] # call.rawData[1][call.timeKey]
    /\ "price" \in DOMAIN call.rawData[1]
    /\ call.result.data[28].price = call.rawData[1].price
    /\ \A k \in 1..27 : call.result.data[k].price < call.rawData[((k - 1) % 3) + 1].price

\* C30 (as claimed): when every price of the input series is strictly positive,
\* every price of the prior periods generateExtendedData synthesizes is
\* strictly positive.
C30_PriorPricesPositive ==
    (/\ IsExtendCall(call)
     /\ Len(call.rawData) >= 2
     /\ \A i \in 1..Len(call.rawData) : TemplatePrice(call.rawData[i]) > 0) =>
        \A k \in 1..(PeriodsToAdd(call.timeRange) * Len(call.rawData)) :
            call.result.data[k].price > 0

(***************************************************************************)
(* The absolute time of the seconds the engine samples                     *)
(***************************************************************************)
\* the minutes whose bars are sampled: the first two and the last two of
\* getDayVolume's loop at the close
SampledMinutes == {0, 1, 389, 390}
\* the seconds getMinuteBar passes to getPriceAtSecond for those minutes
SampledSeconds ==
    {minuteIdx * 60 + SampleOffsets[i] : minuteIdx \in SampledMinutes, i \in 1..6}

TimeCall(dayNum, marketSec) ==
    [op        |-> "getPriceAtSecond",
     dayNum    |-> dayNum,
     marketSec |-> marketSec,
     t         |-> TimeCoordinate(dayNum, marketSec)]

\* the engine evaluates one more second: the one before it is kept in prev
CallPriceAtSampledSecond ==
    /\ \E dayNum \in DayNums, marketSec \in SampledSeconds :
          call' = TimeCall(dayNum, marketSec)
    /\ prev' = call
    /\ UNCHANGED <<nowDay, nowSec>>

InitTime == ClockInit /\ call = Idle /\ prev = Idle

SpecTime == InitTime /\ [][CallPriceAtSampledSecond]_vars

\* C11: two distinct (dayNum, marketSec) pairs the engine evaluates, marketSec
\* among the seconds sampled up to minute 390, second 59, never have the same
\* time coordinate t = dayNum * 30000 + max(0, marketSec).
C11_TimeCoordinateInjective ==
    (IsPriceCall(call) /\ IsPriceCall(prev)
       /\ <<call.dayNum, call.marketSec>> # <<prev.dayNum, prev.marketSec>>)
        => call.t # prev.t

\* the last second sampled on one day (minute 390, second 59) and the first of
\* the next: their coordinates differ by 30000 - 23459
C11_Witness ==
    /\ IsPriceCall(call) /\ IsPriceCall(prev)
    /\ prev.marketSec = 23459
    /\ call.dayNum = prev.dayNum + 1
    /\ call.marketSec = 0
    /\ call.t - prev.t = 30000 - 23459

(***************************************************************************)
(* The price followed second by second                                     *)
(***************************************************************************)
\* the longest run of consecutive seconds followed
MaxRun == 20
\* the seconds at which a run begins: the open, ten seconds before the bucket
\* boundaries of the hourly layer on the two days (t is a multiple of 3600 at
\* second 1200 on the day before the simulated day, at 3600 on the simulated
\* day), midday, and the last seconds of the session
RunStarts == {0, 1190, 3590, 11690, MARKET_DURATION - MaxRun}

CallPriceAtRunStart ==
    /\ call = Idle
    /\ \E symbol \in Symbols, basePrice \in BarPrices,
          dayNum \in BarDays, marketSec \in RunStarts :
          call' = PriceCall(symbol, basePrice, dayNum, marketSec)
    /\ UNCHANGED <<nowDay, nowSec, prev>>

\* one second later the price is evaluated again with the same arguments
CallPriceAtNextSecond ==
    /\ IsPriceCall(call)
    /\ call.marketSec + 1 <= MARKET_DURATION
    /\ \E start \in RunStarts : call.marketSec \in start .. (start + MaxRun - 1)
    /\ prev' = call
    /\ call' = PriceCall(call.symbol, call.basePrice, call.dayNum, call.marketSec + 1)
    /\ UNCHANGED <<nowDay, nowSec>>

InitContinuity == ClockInit /\ call = Idle /\ prev = Idle

NextContinuity ==
    \/ DayPasses
    \/ CallPriceAtRunStart
    \/ CallPriceAtNextSecond

SpecContinuity == InitContinuity /\ [][NextContinuity]_vars

\* the calls of prev and call are for consecutive seconds s and s + 1 of one day
ConsecutiveSeconds ==
    /\ IsPriceCall(call) /\ IsPriceCall(prev)
    /\ call.symbol = prev.symbol /\ call.basePrice = prev.basePrice
    /\ call.dayNum = prev.dayNum
    /\ call.marketSec = prev.marketSec + 1

\* C12: for s in 0..23399 the prices at seconds s and s + 1 differ by at most
\* one volatility unit (1.2% of the day's open) plus one cent, bucket boundaries
\* of the four noise layers included (prices in tenth-mills, dayOpen in mills,
\* both sides times 100).
C12_Continuity ==
    (ConsecutiveSeconds /\ prev.marketSec \in 0..23399 /\ call.basePrice > 0)
        => Abs(call.price - prev.price) * 100 <= 12 * call.dayOpen + 100 * 100

\* the step onto a bucket boundary of all four layers (t a multiple of 3600),
\* the price moving across it
C12_Witness ==
    /\ ConsecutiveSeconds
    /\ call.basePrice > 1
    /\ TimeCoordinate(call.dayNum, call.marketSec) % 3600 = 0
    /\ call.marketSec > 0
    /\ call.price # prev.price

(***************************************************************************)
(* The engine called with arguments outside its domain                     *)
(***************************************************************************)
\* the symbols a caller may pass, the empty string among them
AnySymbols == Symbols \cup {<<>>}
\* -$100.00, $0.00 and $100.00 in mills
AnyPrices == {-100000, 0, 100000}

CallPriceAtSecondWithAny ==
    /\ call = Idle
    /\ \E symbol \in AnySymbols, basePrice \in AnyPrices,
          dayNum \in BarDays, marketSec \in MarketSecs :
          call' = PriceCall(symbol, basePrice, dayNum, marketSec)
    /\ UNCHANGED <<nowDay, nowSec, prev>>

CallMinuteBarWithAny ==
    /\ call = Idle
    /\ \E symbol \in AnySymbols, basePrice \in AnyPrices,
          dayNum \in BarDays, minuteIdx \in SampledMinutes :
          call' = BarCall(symbol, basePrice, dayNum, minuteIdx)
    /\ UNCHANGED <<nowDay, nowSec, prev>>

InitDomain == ClockInit /\ call = Idle /\ prev = Idle

NextDomain ==
    \/ DayPasses
    \/ CallPriceAtSecondWithAny
    \/ CallMinuteBarWithAny

SpecDomain == InitDomain /\ [][NextDomain]_vars

OutOfDomain(c) == c.basePrice <= 0 \/ c.symbol = <<>>

\* C13 (as claimed): a call of getPriceAtSecond or getMinuteBar with basePrice <= 0
\* or an empty symbol ends in an invalid-argument error, not in a price or a bar.
C13_InvalidArgumentError ==
    ((IsPriceCall(call) \/ IsBarCall(call)) /\ OutOfDomain(call))
        => call.outcome = "invalid-argument"

(***************************************************************************)
(* The lengths of the engine's loops                                       *)
(***************************************************************************)
\* the iterations of the loop of getDayOpenPrice: d = today down to dayNum + 1
RECURSIVE DayOpenWalkSteps(_, _)
DayOpenWalkSteps(d, dayNum) ==
    IF d <= dayNum THEN 0 ELSE 1 + DayOpenWalkSteps(d - 1, dayNum)

getDayOpenPriceIterations(dayNum) ==
    LET today == todayDayNum
    IN  IF dayNum >= today THEN 0 ELSE DayOpenWalkSteps(today, dayNum)

\* the iterations of the loop of getDayVolume: m = 0 .. currentMinute
getDayVolumeIterations(currentMarketSec) ==
    Cardinality(0 .. (currentMarketSec \div 60))

\* the iterations of the loop of generate1DData: m = 0 .. upToMinute
generate1DDataIterations(currentMarketSec) ==
    Cardinality(0 .. Min(currentMarketSec \div 60, 389))

\* the days the presentation layer asks prices for: the simulated day and the
\* 22 trading days before it (generate1MData)
PresentedDays ==
    {SIMULATED_DAY_NUM}
      \cup {getLastTradingDays(22, SIMULATED_DAY_NUM)[i] : i \in 1..22}
\* market seconds of getCurrentMarketState: the open, the minutes around it and
\* the last minutes of the session
PresentedSecs == {0, 59, 60, 23339, 23340, 23399, MARKET_DURATION}

CallDayOpenPrice ==
    /\ call = Idle
    /\ \E symbol \in Symbols, dayNum \in PresentedDays :
          call' = [op         |-> "getDayOpenPrice",
                   symbol     |-> symbol,
                   dayNum     |-> dayNum,
                   today      |-> todayDayNum,
                   dayOpen    |-> getDayOpenPrice(symbolSeed(symbol), 100000, dayNum),
                   iterations |-> getDayOpenPriceIterations(dayNum)]
    /\ UNCHANGED <<nowDay, nowSec, prev>>

CallMinuteLoop ==
    /\ call = Idle
    /\ \E op \in {"getDayVolume", "generate1DData"}, currentMarketSec \in PresentedSecs :
          call' = [op               |-> op,
                   currentMarketSec |-> currentMarketSec,
                   today            |-> todayDayNum,
                   iterations       |-> IF op = "getDayVolume"
                                        THEN getDayVolumeIterations(currentMarketSec)
                                        ELSE generate1DDataIterations(currentMarketSec)]
    /\ UNCHANGED <<nowDay, nowSec, prev>>

InitLoops == ClockInit /\ call = Idle /\ prev = Idle

NextLoops ==
    \/ DayPasses
    \/ CallDayOpenPrice
    \/ CallMinuteLoop

SpecLoops == InitLoops /\ [][NextLoops]_vars

\* C14 (as claimed): for the days and market seconds the presentation layer
\* passes, at any wall-clock date, the backward walk of getDayOpenPrice runs at
\* most 30 iterations and the per-minute loops of getDayVolume and
\* generate1DData at most 390.
C14_BoundedLoops ==
    /\ (call # Idle /\ call.op = "getDayOpenPrice") => call.iterations <= 30
    /\ (call # Idle /\ call.op \in {"getDayVolume", "generate1DData"})
          => call.iterations <= 390

(***************************************************************************)
(* The series drawn by the chart                                           *)
(***************************************************************************)
\* the market seconds at which the series are generated: the first minutes of
\* the session second by second up to MaxEarlySec, the hours, and the close
MaxEarlySec == 130
SeriesSecs == (0 .. MaxEarlySec) \cup {MARKET_DURATION, MARKET_DURATION + 60}
\* the market seconds at which the multi-day series are generated: around the
\* hours, whose bars they hold, and the close
HourSecs == {0, 3599, 3600, 21600, MARKET_DURATION}
\* the days the multi-day series are generated for: the simulated day (a
\* Saturday), the Monday and the Tuesday after it
SeriesDays == {SIMULATED_DAY_NUM, SIMULATED_DAY_NUM + 2, SIMULATED_DAY_NUM + 3}
\* the days the previous close is asked for: every day of a week
CloseDays == (SIMULATED_DAY_NUM - 3) .. (SIMULATED_DAY_NUM + 3)

SeriesCall(op, symbol, basePrice, dayNum, currentMarketSec) ==
    [op               |-> op,
     symbol           |-> symbol,
     basePrice        |-> basePrice,
     dayNum           |-> dayNum,
     currentMarketSec |-> currentMarketSec,
     asked            |-> IF op = "generate1DData"
                          THEN generate1DMinutes(dayNum, currentMarketSec)
                          ELSE IF op = "generate5DData"
                          THEN generate5DMinutes(dayNum, currentMarketSec)
                          ELSE generate1MMinutes(dayNum, currentMarketSec),
     data             |-> IF op = "generate1DData"
                          THEN generate1DData(symbol, basePrice, dayNum, currentMarketSec)
                          ELSE IF op = "generate5DData"
                          THEN generate5DData(symbol, basePrice, dayNum, currentMarketSec)
                          ELSE generate1MData(symbol, basePrice, dayNum, currentMarketSec)]

Call1DData ==
    /\ call = Idle
    /\ \E currentMarketSec \in SeriesSecs :
          call' = SeriesCall("generate1DData", <<65, 65, 65>>, 100000,
                             SIMULATED_DAY_NUM, currentMarketSec)
    /\ UNCHANGED <<nowDay, nowSec, prev>>

Call5DData ==
    /\ call = Idle
    /\ \E dayNum \in SeriesDays, currentMarketSec \in HourSecs :
          call' = SeriesCall("generate5DData", <<65, 65, 65>>, 100000,
                             dayNum, currentMarketSec)
    /\ UNCHANGED <<nowDay, nowSec, prev>>

Call1MData ==
    /\ call = Idle
    /\ \E dayNum \in SeriesDays \ {SIMULATED_DAY_NUM + 3},
          currentMarketSec \in {0, 3600, MARKET_DURATION} :
          call' = SeriesCall("generate1MData", <<65, 65, 65>>, 100000,
                             dayNum, currentMarketSec)
    /\ UNCHANGED <<nowDay, nowSec, prev>>

CallPreviousClose ==
    /\ call = Idle
    /\ \E symbol \in Symbols, dayNum \in CloseDays :
          call' = [op        |-> "getPreviousClose",
                   symbol    |-> symbol,
                   basePrice |-> 100000,
                   dayNum    |-> dayNum,
                   close     |-> getPreviousClose(symbol, 100000, dayNum)]
    /\ UNCHANGED <<nowDay, nowSec, prev>>

InitSeries == ClockInit /\ call = Idle /\ prev = Idle

NextSeries ==
    \/ Call1DData
    \/ Call5DData
    \/ Call1MData
    \/ CallPreviousClose

SpecSeries == InitSeries /\ [][NextSeries]_vars

IsSeriesCall(c, op) == c # Idle /\ c.op = op

\* the entry carries the fields of the bar
SameBar(entry, bar) == \A f \in DOMAIN bar : entry[f] = bar[f]

\* C16: for currentMarketSec >= 0 generate1DData returns
\* min(floor(currentMarketSec / 60), 389) + 1 entries, their minuteIdx 0, 1, ...
\* in ascending order, each the bar getMinuteBar gives for that minute of dayNum.
C16_IntradaySeries ==
    (IsSeriesCall(call, "generate1DData") /\ call.currentMarketSec >= 0) =>
        LET last == IF call.currentMarketSec \div 60 < 389
                    THEN call.currentMarketSec \div 60 ELSE 389
        IN  /\ Len(call.data) = last + 1
            /\ \A k \in 1..Len(call.data) :
                  /\ call.data[k].minuteIdx = k - 1
                  /\ SameBar(call.data[k],
                             getMinuteBar(call.symbol, call.basePrice, call.dayNum, k - 1))

\* the series at the close: 390 entries, the last for minute 389 (3:59 PM)
C16_Witness ==
    /\ IsSeriesCall(call, "generate1DData")
    /\ call.currentMarketSec = MARKET_DURATION
    /\ Len(call.data) = 390
    /\ call.data[390].minuteIdx = 389
    /\ call.data[390].time = [h12 |-> 3, m |-> 59, ampm |-> "PM"]
    /\ call.data[1].time = [h12 |-> 9, m |-> 30, ampm |-> "AM"]

\* C17: generate5DData returns, in chronological order, the 7 bars at minutes
\* 0, 60, ..., 360 of each of the 4 most recent trading days before dayNum, then
\* today's bars at those minutes m with m <= floor(currentMarketSec / 60):
\* 28 + min(floor(currentMarketSec / 3600), 6) + 1 entries in all.
C17_HourlySeries ==
    (IsSeriesCall(call, "generate5DData") /\ call.currentMarketSec >= 0) =>
        LET days  == getLastTradingDays(4, call.dayNum)
            hours == IF call.currentMarketSec \div 3600 < 6
                     THEN call.currentMarketSec \div 3600 ELSE 6
            dayOf(k) == IF k <= 28 THEN days[((k - 1) \div 7) + 1] ELSE call.dayNum
            minOf(k) == ((k - 1) % 7) * 60
        IN  /\ Len(call.data) = 28 + hours + 1
            /\ \A k \in 1..Len(call.data) :
                  /\ call.data[k].date = fmtDatetime(dayOf(k), minOf(k))
                  /\ SameBar(call.data[k],
                             getMinuteBar(call.symbol, call.basePrice, dayOf(k), minOf(k)))
            /\ \A k \in 29..Len(call.data) : minOf(k) <= call.currentMarketSec \div 60
            /\ Len(call.data) < 35 => minOf(Len(call.data) + 1) > call.currentMarketSec \div 60

\* the series one second before 10:30 on a Monday: Tuesday to Friday of the
\* week before, then today's bar of 9:30 alone
C17_Witness ==
    /\ IsSeriesCall(call, "generate5DData")
    /\ getUTCDay(call.dayNum) = 1
    /\ call.currentMarketSec = 3599
    /\ Len(call.data) = 29
    /\ call.data[28].date = fmtDatetime(call.dayNum - 3, 360)
    /\ call.data[28].date.time = [h12 |-> 3, m |-> 30, ampm |-> "PM"]
    /\ call.data[29].date = fmtDatetime(call.dayNum, 0)

\* the last second getMinuteBar samples for a minute
LastSampledSecond(minuteIdx) == minuteIdx * 60 + SampleOffsets[Len(SampleOffsets)]

\* C18 (as claimed): every bar of the current day in generate1DData,
\* generate5DData and generate1MData is built only from samples at seconds
\* <= currentMarketSec.
C18_NoFutureData ==
    (IsSeriesCall(call, "generate1DData") \/ IsSeriesCall(call, "generate5DData")
       \/ IsSeriesCall(call, "generate1MData")) =>
        \A k \in 1..Len(call.asked) :
            call.asked[k][1] = call.dayNum
                => LastSampledSecond(call.asked[k][2]) <= call.currentMarketSec

\* C19: generate1MData returns exactly 23 entries: the minute-389 bars of the 22
\* most recent trading days before dayNum, oldest first, and then
\* getMinuteBar(dayNum, min(floor(currentMarketSec / 60), 389)).
C19_DailySeries ==
    IsSeriesCall(call, "generate1MData") =>
        LET days        == getLastTradingDays(22, call.dayNum)
            todayMinute == IF call.currentMarketSec \div 60 < 389
                           THEN call.currentMarketSec \div 60 ELSE 389
        IN  /\ Len(call.data) = 23
            /\ \A k \in 1..22 :
                  /\ call.data[k].date = fmtDate(days[k])
                  /\ SameBar(call.data[k],
                             getMinuteBar(call.symbol, call.basePrice, days[k], 389))
            /\ call.data[23].date = fmtDate(call.dayNum)
            /\ SameBar(call.data[23],
                       getMinuteBar(call.symbol, call.basePrice, call.dayNum, todayMinute))

\* the series at the close of a Monday: 22 days ending on the Friday before, and
\* today's bar of minute 389, not 390
C19_Witness ==
    /\ IsSeriesCall(call, "generate1MData")
    /\ getUTCDay(call.dayNum) = 1
    /\ call.currentMarketSec = MARKET_DURATION
    /\ Len(call.data) = 23
    /\ call.data[22].date = fmtDate(call.dayNum - 3)
    /\ call.data[23].volume = MinuteVolume(call.symbol, call.dayNum, 389)
    /\ call.data[23].volume # MinuteVolume(call.symbol, call.dayNum, 390)

\* the greatest day before dayNum that is not a Saturday or a Sunday
LastWeekdayBefore(dayNum) ==
    CHOOSE d \in (dayNum - 7) .. (dayNum - 1) :
        /\ ~IsWeekend(d)
        /\ \A later \in (d + 1) .. (dayNum - 1) : IsWeekend(later)

\* C20: getPreviousClose returns the close of the minute-389 bar of the greatest
\* day before dayNum that is not a Saturday or Sunday (the skip loop ends on
\* such a day), and that is the close of the second-to-last entry of
\* generate1MData for the same arguments.
C20_PreviousClose ==
    /\ IsSeriesCall(call, "getPreviousClose") =>
          /\ ~IsWeekend(PreviousCloseDay(call.dayNum - 1, 0))
          /\ PreviousCloseDay(call.dayNum - 1, 0) = LastWeekdayBefore(call.dayNum)
          /\ call.close = getMinuteBar(call.symbol, call.basePrice,
                                       LastWeekdayBefore(call.dayNum), 389).close
    /\ IsSeriesCall(call, "generate1MData") =>
          call.data[Len(call.data) - 1].close
            = getPreviousClose(call.symbol, call.basePrice, call.dayNum)

\* the previous close asked for on a Monday: Friday's, two days skipped, and not
\* the close the Sunday would have
C20_Witness ==
    /\ IsSeriesCall(call, "getPreviousClose")
    /\ getUTCDay(call.dayNum) = 1
    /\ PreviousCloseDay(call.dayNum - 1, 0) = call.dayNum - 3
    /\ call.close = getMinuteBar(call.symbol, call.basePrice, call.dayNum - 3, 389).close
    /\ call.close # getMinuteBar(call.symbol, call.basePrice, call.dayNum - 1, 389).close

\* the last minute of the bucket that starts at minute first and spans span
\* minutes: the session ends at minute 389 and the current day at the minute
\* in progress
BucketLast(c, day, first, span) ==
    LET last == Min(first + span - 1, 389)
    IN  IF day = c.dayNum
        THEN Min(last, Max(first, Min(c.currentMarketSec \div 60, 389)))
        ELSE last

\* entry k of the series is the OHLCV aggregate of the minute bars first..last
\* of its day: first open, last close, extrema of the highs and lows, summed volume
IsAggregate(c, k, first, span) ==
    LET day  == c.asked[k][1]
        last == BucketLast(c, day, first, span)
    IN  /\ c.data[k].volume = SumVolumes(c.symbol, day, first, last)
        /\ c.data[k].open = getMinuteBar(c.symbol, c.basePrice, day, first).open
        /\ c.data[k].close = getMinuteBar(c.symbol, c.basePrice, day, last).close
        /\ \A m \in first..last :
              /\ c.data[k].high >= getMinuteBar(c.symbol, c.basePrice, day, m).high
              /\ c.data[k].low <= getMinuteBar(c.symbol, c.basePrice, day, m).low
        /\ \E m \in first..last :
              c.data[k].high = getMinuteBar(c.symbol, c.basePrice, day, m).high
        /\ \E m \in first..last :
              c.data[k].low = getMinuteBar(c.symbol, c.basePrice, day, m).low

\* C21 (as claimed): every hourly bar of generate5DData and every daily bar of
\* generate1MData is the OHLCV aggregate of the minute bars of its bucket: the
\* hour that starts at the bar's minute, or the whole session of the bar's day.
C21_AggregateBars ==
    /\ (IsSeriesCall(call, "generate5DData") /\ call.currentMarketSec >= 0) =>
          \A k \in 1..Len(call.data) : IsAggregate(call, k, call.asked[k][2], 60)
    /\ IsSeriesCall(call, "generate1MData") =>
          \A k \in 1..Len(call.data) : IsAggregate(call, k, 0, 390)

\* the sum of the volume fields of the entries from..to of a series
RECURSIVE SumVolumeFields(_, _, _)
SumVolumeFields(data, from, to) ==
    IF from > to THEN 0
    ELSE IF from = to THEN data[from].volume
    ELSE LET mid == (from + to) \div 2
         IN  SumVolumeFields(data, from, mid) + SumVolumeFields(data, mid + 1, to)

\* C28 (as claimed): for every currentMarketSec in [0, 23400] getDayVolume
\* equals the sum of the volumes of the bars generate1DData returns for the
\* same arguments, at the close included.
C28_VolumeMatchesChart ==
    (/\ IsSeriesCall(call, "generate1DData")
     /\ call.currentMarketSec >= 0
     /\ call.currentMarketSec <= MARKET_DURATION) =>
        getDayVolume(call.symbol, call.basePrice, call.dayNum, call.currentMarketSec)
            = SumVolumeFields(call.data, 1, Len(call.data))

(***************************************************************************)
(* The ticker page's statistics                                            *)
(***************************************************************************)

\* the seconds the loop of getTodayDaysRange samples: 0, 300, ... while they
\* are <= currentMarketSec
RangeSampleSeconds(currentMarketSec) ==
    IF currentMarketSec < 0 THEN << >>
    ELSE [k \in 1..(currentMarketSec \div 300 + 1) |-> (k - 1) * 300]

getTodayDaysRangeSamples(symbol, basePrice, dayNum, currentMarketSec) ==
    LET secs == RangeSampleSeconds(currentMarketSec)
    IN  IF Len(secs) = 0
        THEN <<getPriceAtSecond(symbol, basePrice, dayNum, 0)>>
        ELSE [k \in 1..Len(secs) |-> getPriceAtSecond(symbol, basePrice, dayNum, secs[k])]

\* Math.min(...samples) and Math.max(...samples) over the values sampled
LeastOf(values) == CHOOSE m \in values : \A x \in values : m <= x
GreatestOf(values) == CHOOSE m \in values : \A x \in values : m >= x

\* the string "lo - hi" is kept as the pair of its two numbers
getTodayDaysRange(symbol, basePrice, dayNum, currentMarketSec) ==
    Bind(getTodayDaysRangeSamples(symbol, basePrice, dayNum, currentMarketSec),
         LAMBDA samples :
           Bind({samples[k] : k \in 1..Len(samples)},
                LAMBDA values : [low  |-> ToFixed2(LeastOf(values)),
                                 high |-> ToFixed2(GreatestOf(values))]))

\* seconds around the 5-minute sampling grid, through the session
StatSecs == (0 .. 12) \cup {-60, 150, 299, 300, 301, 450, 599, 600, 750, 3600, 3725,
                            11700, 11850, 23100, 23399, MARKET_DURATION}

\* TickerPage renders the current price and the day's range for one reading
\* of the market state
CallTickerStats ==
    /\ call = Idle
    /\ \E symbol \in Symbols, basePrice \in {100000, 187340}, marketSec \in StatSecs :
          call' = [op          |-> "TickerPage",
                   symbol      |-> symbol,
                   basePrice   |-> basePrice,
                   dayNum      |-> SIMULATED_DAY_NUM,
                   marketSec   |-> marketSec,
                   currentPrice |-> getPriceAtSecond(symbol, basePrice,
                                                     SIMULATED_DAY_NUM, marketSec),
                   loopSamples |-> Len(RangeSampleSeconds(marketSec)),
                   daysRange   |-> getTodayDaysRange(symbol, basePrice,
                                                     SIMULATED_DAY_NUM, marketSec)]
    /\ UNCHANGED <<nowDay, nowSec, prev>>

InitStats == ClockInit /\ call = Idle /\ prev = Idle

NextStats == CallTickerStats \/ DayPasses

SpecStats == InitStats /\ [][NextStats]_vars

IsStatsCall(c) == c # Idle /\ c.op = "TickerPage"

\* C29 (as claimed): for every currentMarketSec in [0, 23400] the current price
\* lies within the day range getTodayDaysRange reports for the same arguments,
\* and the loop of getTodayDaysRange has put at least one sample in the list.
C29_PriceWithinRange ==
    (IsStatsCall(call) /\ call.marketSec >= 0 /\ call.marketSec <= MARKET_DURATION) =>
        /\ call.loopSamples >= 1
        /\ call.daysRange.low <= call.currentPrice
        /\ call.currentPrice <= call.daysRange.high

(***************************************************************************)
(* The backward walk of getDayOpenPrice, one iteration at a time           *)
(***************************************************************************)
\* how many days before today the walk may be asked to go
MaxWalk == 40

\* $0.001, $1.00, $100.00 and $187.34, in mills
WalkPrices == {1, 1000, 100000, 187340}

\* getDayOpenPrice is entered: the early return, or the loop's first state
EnterDayOpenWalk ==
    /\ call = Idle
    /\ \E symbol \in Symbols, basePrice \in WalkPrices,
          dayNum \in (SIMULATED_DAY_NUM - MaxWalk) .. (SIMULATED_DAY_NUM + 1) :
          call' = [op        |-> "getDayOpenPrice",
                   symbol    |-> symbol,
                   basePrice |-> basePrice,
                   dayNum    |-> dayNum,
                   today     |-> todayDayNum,
                   d         |-> todayDayNum,
                   drifted   |-> basePrice,
                   price     |-> basePrice,
                   resets    |-> 0,
                   at        |-> IF dayNum >= todayDayNum THEN "returned" ELSE "loop",
                   result    |-> basePrice]
    /\ UNCHANGED <<nowDay, nowSec, prev>>

\* one iteration of the loop: for (let d = today; d > dayNum; d--)
DayOpenWalkStep ==
    /\ call # Idle /\ call.op = "getDayOpenPrice" /\ call.at = "loop"
    /\ call.d > call.dayNum
    /\ call' = Bind(DayOpenDrift(symbolSeed(call.symbol), call.price, call.d),
                    LAMBDA p1 :
                      [call EXCEPT !.drifted = p1,
                                   !.price   = DayOpenStep(symbolSeed(call.symbol),
                                                           call.basePrice, call.price, call.d),
                                   !.resets  = IF p1 <= 0 THEN 1 ELSE call.resets,
                                   !.d       = call.d - 1])
    /\ UNCHANGED <<nowDay, nowSec, prev>>

\* the loop ends: return Math.max(price, basePrice * 0.1)
DayOpenWalkReturn ==
    /\ call # Idle /\ call.op = "getDayOpenPrice" /\ call.at = "loop"
    /\ call.d <= call.dayNum
    /\ call' = [call EXCEPT !.at = "returned",
                            !.result = Max(call.price, RoundDiv(call.basePrice, 10))]
    /\ UNCHANGED <<nowDay, nowSec, prev>>

InitWalk == ClockInit /\ call = Idle /\ prev = Idle

NextWalk ==
    \/ EnterDayOpenWalk
    \/ DayOpenWalkStep
    \/ DayOpenWalkReturn
    \/ DayPasses

SpecWalk == InitWalk /\ [][NextWalk]_vars

IsWalk(c) == c # Idle /\ c.op = "getDayOpenPrice"

\* C23: for positive basePrice the walk of getDayOpenPrice is strictly positive
\* after every division, so the reset to 0.3 * basePrice is never taken, and the
\* value returned is at least 0.1 * basePrice (and is the value of the whole
\* function).
C23_WalkStaysPositive ==
    IsWalk(call) =>
        /\ call.drifted > 0
        /\ call.price > 0
        /\ call.resets = 0
        /\ call.at = "returned" =>
              /\ call.result * 10 >= call.basePrice
              /\ call.result = getDayOpenPrice(symbolSeed(call.symbol),
                                               call.basePrice, call.dayNum)

\* a walk of MaxWalk days has returned a price that drifted away from basePrice
C23_Witness ==
    /\ IsWalk(call)
    /\ call.at = "returned"
    /\ call.today - call.dayNum >= MaxWalk
    /\ call.d = call.dayNum
    /\ call.result # call.basePrice
    /\ call.basePrice = 100000

(***************************************************************************)
(* Smooth noise followed along the time coordinate                         *)
(***************************************************************************)
\* the longest run of consecutive time coordinates followed
MaxNoiseRun == 24

\* <<channel, period>>: the four layers of getPriceAtSecond, and the first
\* channel with periods 1 and 7
NoiseChannels == {<<4097, 3600>>, <<8194, 600>>, <<12291, 60>>, <<16388, 10>>,
                  <<4097, 1>>, <<4097, 7>>}

\* where a run begins: the origin, twelve steps before the first bucket
\* boundary, before the middle of the first bucket (the steepest part of the
\* smoothstep), and twelve steps before the open of the simulated day, a
\* boundary of every layer of the engine
NoiseStarts(period) ==
    {0, Max(0, period - 12), Max(0, period \div 2 - 12),
     SIMULATED_DAY_NUM * 30000 - 12}

NoiseCall(symbol, channel, period, t) ==
    [op      |-> "smoothNoise",
     symbol  |-> symbol,
     channel |-> channel,
     period  |-> period,
     t       |-> t,
     value   |-> smoothNoise(symbolSeed(symbol), channel, t, period)]

CallSmoothNoise ==
    /\ call = Idle
    /\ \E symbol \in Symbols, layer \in NoiseChannels :
          \E t \in NoiseStarts(layer[2]) :
              call' = NoiseCall(symbol, layer[1], layer[2], t)
    /\ UNCHANGED <<nowDay, nowSec, prev>>

\* the same noise evaluated one step of t later
CallSmoothNoiseNext ==
    /\ call # Idle /\ call.op = "smoothNoise"
    /\ \E start \in NoiseStarts(call.period) :
          call.t \in start .. (start + MaxNoiseRun - 1)
    /\ prev' = call
    /\ call' = NoiseCall(call.symbol, call.channel, call.period, call.t + 1)
    /\ UNCHANGED <<nowDay, nowSec>>

InitNoise == ClockInit /\ call = Idle /\ prev = Idle

NextNoise == CallSmoothNoise \/ CallSmoothNoiseNext

SpecNoise == InitNoise /\ [][NextNoise]_vars

IsNoiseCall(c) == c # Idle /\ c.op = "smoothNoise"

\* 2 * rand2(seed ^ channel, bucket) - 1 in Q15
BucketValue(c, bucket) ==
    NoiseQ15(rand2(Xor(symbolSeed(c.symbol), ToWord(c.channel)), bucket))

\* the interpolation of bucket at its far end: frac = 1
InterpolationEnd(c, bucket) ==
    BucketValue(c, bucket)
      + RoundDiv((BucketValue(c, bucket + 1) - BucketValue(c, bucket)) * Smoothstep(16384),
                 16384)

\* C24: smoothNoise lies in [-1, 1]; at t = k * period it is
\* 2 * rand2(seed ^ channel, k) - 1, the end value of the interpolation on
\* bucket k - 1; and two evaluations at t and t + 1 differ by at most 3 / period,
\* across bucket boundaries too (values in Q15, both sides times period).
C24_SmoothNoiseContinuous ==
    IsNoiseCall(call) =>
        /\ call.value >= -32768 /\ call.value <= 32768
        /\ call.t % call.period = 0 =>
              /\ call.value = BucketValue(call, call.t \div call.period)
              /\ call.t >= call.period =>
                    call.value = InterpolationEnd(call, call.t \div call.period - 1)
        /\ (IsNoiseCall(prev) /\ call.t = prev.t + 1) =>
              Abs(call.value - prev.value) * call.period
                  <= 3 * 32768

\* the step onto a bucket boundary of the ten-second layer at the open of the
\* simulated day, the noise moving
C24_Witness ==
    /\ IsNoiseCall(call) /\ IsNoiseCall(prev)
    /\ call.period = 10
    /\ call.t = SIMULATED_DAY_NUM * 30000
    /\ call.t = prev.t + 1
    /\ call.t % call.period = 0
    /\ call.t > 0
    /\ call.value # prev.value

(***************************************************************************)
(* App: the market-time ticker                                             *)
(***************************************************************************)
\* the largest number of intraday points getMaxIntradayPoints() returns
MaxIntradayPoints == 16

IntradayPointCounts == 0 .. MaxIntradayPoints

\* the state updater with the index wrapping to 0 after the last point
nextMarketTimeIndex_Wrap(prevIndex, maxIntradayPoints) ==
    (prevIndex + 1) % maxIntradayPoints

\* the state updater passed to setMarketTimeIndex
nextMarketTimeIndex(prevIndex, maxIntradayPoints) ==
    IF prevIndex >= maxIntradayPoints - 1 THEN prevIndex ELSE prevIndex + 1

\* first render: useMemo and useState run, the effect is yet to run
MountApp ==
    /\ call = Idle
    /\ \E maxIntradayPoints \in IntradayPointCounts :
          call' = [op                |-> "App",
                   maxIntradayPoints |-> maxIntradayPoints,
                   marketTimeIndex   |-> 0,
                   timer             |-> "pending"]
    /\ UNCHANGED <<nowDay, nowSec, prev>>

\* the effect runs after the first render: it starts the interval, or returns
\* without a timer when there is at most one point
RunEffect ==
    /\ call # Idle /\ call.op = "App" /\ call.timer = "pending"
    /\ call' = [call EXCEPT !.timer = IF call.maxIntradayPoints <= 1
                                      THEN "none" ELSE "running"]
    /\ UNCHANGED <<nowDay, nowSec, prev>>

\* the interval fires
Tick ==
    /\ call # Idle /\ call.op = "App" /\ call.timer = "running"
    /\ call' = [call EXCEPT !.marketTimeIndex =
                    nextMarketTimeIndex(call.marketTimeIndex, call.maxIntradayPoints)]
    /\ UNCHANGED <<nowDay, nowSec, prev>>

InitApp == ClockInit /\ call = Idle /\ prev = Idle

NextApp == MountApp \/ RunEffect \/ Tick

SpecApp == InitApp /\ [][NextApp]_vars

\* the page is mounted, React runs the effect of a mounted component, and a
\* running interval keeps firing
SpecAppFair ==
    InitApp /\ [][NextApp]_vars
      /\ WF_vars(MountApp) /\ WF_vars(RunEffect) /\ WF_vars(Tick)

IsApp(c) == c # Idle /\ c.op = "App"

\* the index of the last intraday point (0 when there is none)
LastIndex(c) == Max(0, c.maxIntradayPoints - 1)

\* a step of App leaves marketTimeIndex unchanged or adds 1 to it
TickStep ==
    (IsApp(call) /\ IsApp(call')) =>
        /\ call'.marketTimeIndex \in {call.marketTimeIndex, call.marketTimeIndex + 1}
        /\ call.marketTimeIndex = LastIndex(call) =>
              call'.marketTimeIndex = call.marketTimeIndex

\* C25: marketTimeIndex starts at 0, every tick adds 1 to it or leaves it
\* unchanged, it never decreases and never exceeds maxIntradayPoints - 1; with
\* the interval firing it reaches maxIntradayPoints - 1 and stays there for ever
\* (no wrap-around); with maxIntradayPoints <= 1 no timer is started and it
\* stays 0.
C25_TickerStopsAtClose ==
    /\ [](IsApp(call) =>
            /\ call.marketTimeIndex >= 0
            /\ call.marketTimeIndex <= LastIndex(call)
            /\ call.timer = "pending" => call.marketTimeIndex = 0
            /\ call.maxIntradayPoints <= 1 =>
                  (call.timer # "running" /\ call.marketTimeIndex = 0))
    /\ [][TickStep]_vars
    /\ <>[](IsApp(call) /\ call.marketTimeIndex = LastIndex(call))

\* the ticker has walked from 0 to the last of at least three points
C25_Witness ==
    /\ IsApp(call)
    /\ call.timer = "running"
    /\ call.maxIntradayPoints >= 3
    /\ call.marketTimeIndex = call.maxIntradayPoints - 1

(***************************************************************************)
(* StockChart: panning the brush with the scroll wheel                     *)
(***************************************************************************)
\* the longest series the brush is laid over
MaxTotalLen == 24

\* the handler without the clamp at the end of the series
handleWheel_NoUpperClamp(brushRange, deltaSign, totalLen) ==
    LET windowSize == brushRange[2] - brushRange[1]
        step       == Max(1, windowSize \div 10)
        newStart   == brushRange[1] + deltaSign * step
        newEnd     == brushRange[2] + deltaSign * step
    IN  IF newStart < 0 THEN <<0, windowSize>> ELSE <<newStart, newEnd>>

\* the range handleWheel passes to setBrushRange; deltaSign is Math.sign(e.deltaY)
handleWheel(brushRange, deltaSign, totalLen) ==
    LET windowSize == brushRange[2] - brushRange[1]
        step       == Max(1, windowSize \div 10)
        newStart   == brushRange[1] + deltaSign * step
        newEnd     == brushRange[2] + deltaSign * step
        lowClamped == IF newStart < 0 THEN <<0, windowSize>> ELSE <<newStart, newEnd>>
    IN  IF lowClamped[2] >= totalLen
        THEN <<totalLen - 1 - windowSize, totalLen - 1>>
        ELSE lowClamped

\* the chart is shown over a series of totalLen points with some brush range
\* inside it (the initial window, or one the user has dragged)
MountChart ==
    /\ call = Idle
    /\ \E timeRange \in {"1d", "5d", "1m"}, totalLen \in 1..MaxTotalLen :
          \E start \in 0..(totalLen - 1) :
              \E end \in start..(totalLen - 1) :
                  call' = [op           |-> "StockChart",
                           timeRange    |-> timeRange,
                           totalLen     |-> totalLen,
                           brushRange   |-> <<start, end>>,
                           initialWidth |-> end - start,
                           lastWheel    |-> << >>]
    /\ UNCHANGED <<nowDay, nowSec, prev>>

\* a wheel event; the listener is attached for 5D and 1M only
Wheel ==
    /\ call # Idle /\ call.op = "StockChart"
    /\ call.timeRange # "1d"
    /\ \E deltaSign \in {-1, 0, 1} :
          call' = [call EXCEPT !.brushRange = handleWheel(call.brushRange, deltaSign,
                                                          call.totalLen),
                               !.lastWheel  = <<deltaSign>>]
    /\ UNCHANGED <<nowDay, nowSec, prev>>

InitBrush == ClockInit /\ call = Idle /\ prev = Idle

NextBrush == MountChart \/ Wheel

SpecBrush == InitBrush /\ [][NextBrush]_vars

IsBrush(c) == c # Idle /\ c.op = "StockChart"

\* C27: from a brush range with 0 <= start <= end <= totalLen - 1, after any
\* sequence of wheel events in either direction the range still satisfies
\* 0 <= start <= end <= totalLen - 1 and its width end - start is unchanged.
C27_BrushStaysInside ==
    IsBrush(call) =>
        /\ 0 <= call.brushRange[1]
        /\ call.brushRange[1] <= call.brushRange[2]
        /\ call.brushRange[2] <= call.totalLen - 1
        /\ call.brushRange[2] - call.brushRange[1] = call.initialWidth

\* a window of 21 points, panned in steps of 2, has come to rest against the
\* end of the series
C27_Witness ==
    /\ IsBrush(call)
    /\ call.lastWheel = <<1>>
    /\ call.initialWidth = 20
    /\ call.brushRange[1] > 0
    /\ call.brushRange[2] = call.totalLen - 1

(***************************************************************************)
(* StockChart: OHLCV enrichment, intermediate points and the displayed data *)
(***************************************************************************)
\* a field that is undefined or null is absent from the record
HasValue(point, field) == field \in DOMAIN point

\* price * factor / 1000000, for a price in tenth-mills
Scaled(price, factor) == RoundDiv(RoundDiv(price, 100) * factor, 10000)

ensureOHLCV(point, seed) ==
    IF ~HasValue(point, "price") /\ ~HasValue(point, "close") THEN point
    ELSE IF /\ HasValue(point, "open") /\ HasValue(point, "high")
            /\ HasValue(point, "low") /\ HasValue(point, "close")
    THEN [price |-> TemplatePrice(point)] @@ point
    ELSE LET price   == TemplatePrice(point)
             open    == ToFixed2(price + Scaled(price, seededRandom(seed * 4 + 1) - 5000))
             close   == ToFixed2(price)
             rawHigh == price + RoundDiv(RoundDiv(price, 100)
                                           * seededRandom(seed * 4 + 2) * 3, 40000)
             rawLow  == price - RoundDiv(RoundDiv(price, 100)
                                           * seededRandom(seed * 4 + 3) * 3, 40000)
         IN  [price  |-> price,
              open   |-> open,
              close  |-> close,
              high   |-> ToFixed2(Max(rawHigh, Max(open, close))),
              low    |-> ToFixed2(Min(rawLow, Min(open, close))),
              volume |-> IF HasValue(point, "volume") THEN point.volume
                         ELSE 40000 + seededRandom(seed * 4 + 4) * 16]
               @@ point

\* two intermediate points whatever the time range
numIntermediate_Two(timeRange) == 2

numIntermediate(timeRange) == IF timeRange = "1d" THEN 3 ELSE 2

\* intermediate point j between points i and i + 1 (i 0-based); xIdx is kept in
\* twelfths, so that i + j / (numIntermediate + 1) is an integer
IntermediatePoint(pt, next, timeKey, i, j, k) ==
    LET seed  == i * 1000 + j * 7
        base  == pt.price + RoundDiv((next.price - pt.price) * j, k + 1)
        noise == RoundDiv(RoundDiv(base, 10) * (seededRandom(seed) - 5000), 125000)
        price == ToFixed2(base + noise)
        open  == ToFixed2(price + Scaled(price, seededRandom(seed + 10) - 5000))
        rawH  == price + Scaled(price, seededRandom(seed + 20))
        rawL  == price - Scaled(price, seededRandom(seed + 30))
    IN  (timeKey :> pt[timeKey])
          @@ [xIdx     |-> 12 * i + (12 * j) \div (k + 1),
              price    |-> price,
              open     |-> open,
              close    |-> price,
              high     |-> ToFixed2(Max(rawH, Max(open, price))),
              low      |-> ToFixed2(Min(rawL, Min(open, price))),
              volume   |-> 40000 + seededRandom(seed + 40) * 16,
              isActual |-> FALSE]

enrichWithIntermediates(extData, timeRange) ==
    IF Len(extData) < 2
    THEN [i \in 1..Len(extData) |-> ensureOHLCV(extData[i], i - 1)]
    ELSE LET timeKey == TimeKeyOf(extData)
             k       == numIntermediate(timeRange)
             n       == Len(extData)
         IN  Bind([i \in 1..n |-> ensureOHLCV(extData[i], (i - 1) * 100)],
                  LAMBDA pts :
                    [e \in 1..(n + k * (n - 1)) |->
                       LET i == (e - 1) \div (k + 1)
                           j == (e - 1) % (k + 1)
                       IN  IF j = 0
                           THEN [isActual |-> TRUE, xIdx |-> 12 * i] @@ pts[i + 1]
                           ELSE IntermediatePoint(pts[i + 1], pts[i + 2], timeKey, i, j, k)])

\* what ChartTooltip renders for the hovered point d
ChartTooltip(active, d) ==
    IF ~active THEN [outcome |-> "null"]
    ELSE IF HasValue(d, "isActual") /\ d.isActual = FALSE THEN [outcome |-> "null"]
    ELSE IF ~HasValue(d, "close") /\ ~HasValue(d, "price") THEN [outcome |-> "TypeError"]
    ELSE LET cl == IF HasValue(d, "close") THEN d.close ELSE d.price
         IN  [outcome |-> "rendered",
              close   |-> ToFixed2(cl),
              open    |-> ToFixed2(IF HasValue(d, "open") THEN d.open ELSE cl),
              high    |-> ToFixed2(IF HasValue(d, "high") THEN d.high ELSE cl),
              low     |-> ToFixed2(IF HasValue(d, "low") THEN d.low ELSE cl),
              volume  |-> IF HasValue(d, "volume") THEN d.volume ELSE 0]

clamp(value, min, max) == Min(Max(value, min), max)

\* Math.round(a * (num / den)) for a, num >= 0 and den > 0
RoundRatio(a, num, den) == (2 * a * num + den) \div (2 * den)

\* the data StockChart lays the chart over: the input in the 1D view, the
\* extended series otherwise
ExtendedFor(data, timeRange) ==
    IF timeRange = "1d" THEN data ELSE generateExtendedData(data, timeRange).data

\* the values of the first useMemo of StockChart; enrichedPerOriginal is kept
\* as the pair <<numerator, denominator>>
chartMemo(data, timeRange) ==
    IF timeRange = "1d"
    THEN Bind(enrichWithIntermediates(data, timeRange),
              LAMBDA enriched :
                [enrichedData        |-> enriched,
                 initialBrushStart   |-> 0,
                 initialBrushEnd     |-> Len(enriched) - 1,
                 enrichedPerOriginal |-> IF Len(data) > 1 THEN <<Len(enriched), Len(data)>>
                                         ELSE <<1, 1>>,
                 periodLen           |-> Len(data),
                 maxIndex            |-> Max(0, Len(data) - 1)])
    ELSE Bind(generateExtendedData(data, timeRange),
              LAMBDA extended :
         Bind(enrichWithIntermediates(extended.data, timeRange),
              LAMBDA enriched :
                LET perOriginal == IF extended.periodLen > 1
                                   THEN <<Len(enriched),
                                          extended.periodLen * extended.totalPeriods>>
                                   ELSE <<1, 1>>
                    onePeriodEnriched == RoundRatio(extended.periodLen,
                                                    perOriginal[1], perOriginal[2])
                IN  [enrichedData        |-> enriched,
                     initialBrushStart   |-> Max(0, Len(enriched) - onePeriodEnriched),
                     initialBrushEnd     |-> Len(enriched) - 1,
                     enrichedPerOriginal |-> perOriginal,
                     periodLen           |-> extended.periodLen,
                     maxIndex            |-> Max(0, extended.periodLen - 1)]))

\* the points after offset with their prices nulled: label, xIdx and isActual stay
displayData(memo, marketTimeIndex, timeRange) ==
    IF timeRange # "1d" THEN memo.enrichedData
    ELSE LET clampedIndex == clamp(marketTimeIndex, 0, memo.maxIndex)
             offset       == RoundRatio(clampedIndex, memo.enrichedPerOriginal[1],
                                        memo.enrichedPerOriginal[2])
         IN  [e \in 1..Len(memo.enrichedData) |->
                LET point == memo.enrichedData[e]
                IN  IF e - 1 <= offset THEN point
                    ELSE [f \in (DOMAIN point) \cap {"time", "date", "xIdx", "isActual"}
                            |-> point[f]]]

\* StockChart is rendered over a series; the market-time index only matters in
\* the 1D view
RenderStockChart ==
    /\ call = Idle
    /\ \E timeRange \in TimeRanges, timeKey \in TimeKeys, n \in 0..MaxLen :
         \E prices \in [1..n -> PointPrices], hasPrice \in BOOLEAN,
            marketTimeIndex \in -1..(MaxLen + 1) :
            /\ timeRange # "1d" => marketTimeIndex = 0
            /\ call' = Bind(chartMemo(RawSeries(timeKey, hasPrice, prices), timeRange),
                            LAMBDA memo :
                              [op              |-> "StockChart",
                               timeRange       |-> timeRange,
                               data            |-> RawSeries(timeKey, hasPrice, prices),
                               marketTimeIndex |-> marketTimeIndex,
                               extData         |-> ExtendedFor(RawSeries(timeKey, hasPrice,
                                                                         prices), timeRange),
                               memo            |-> memo,
                               displayData     |-> displayData(memo, marketTimeIndex,
                                                               timeRange)])
    /\ UNCHANGED <<nowDay, nowSec, prev>>

InitRender == ClockInit /\ call = Idle /\ prev = Idle

SpecRender == InitRender /\ [][RenderStockChart]_vars

IsRender(c) == c # Idle /\ c.op = "StockChart"

\* C22: for n >= 2 points enrichWithIntermediates returns n + k * (n - 1) points,
\* k = 3 for '1d' and 2 otherwise; the element at index i * (k + 1) is input
\* point i with its price and its other fields (the open aside, which
\* ensureOHLCV recomputes for a point without high or low), isActual = true and
\* xIdx = i; every other element has isActual = false, and ChartTooltip renders
\* nothing for it.
C22_IntermediatesFlagged ==
    (IsRender(call) /\ Len(call.extData) >= 2) =>
        LET n        == Len(call.extData)
            k        == IF call.timeRange = "1d" THEN 3 ELSE 2
            enriched == call.memo.enrichedData
        IN  /\ Len(enriched) = n + k * (n - 1)
            /\ \A i \in 0..(n - 1) :
                  LET e == enriched[i * (k + 1) + 1]
                  IN  /\ e.price = TemplatePrice(call.extData[i + 1])
                      /\ e.isActual = TRUE
                      /\ e.xIdx = 12 * i
                      /\ \A f \in (DOMAIN call.extData[i + 1]) \ {"open"} :
                            e[f] = call.extData[i + 1][f]
            /\ \A e \in 1..Len(enriched) :
                  (e - 1) % (k + 1) # 0 =>
                      /\ enriched[e].isActual = FALSE
                      /\ ChartTooltip(TRUE, enriched[e]).outcome = "null"

\* three points of a one-day series enriched to nine, the tooltip shown on the
\* real points and on no point between them
C22_Witness ==
    /\ IsRender(call)
    /\ call.timeRange = "1d"
    /\ Len(call.extData) = 3
    /\ Len(call.memo.enrichedData) = 9
    /\ ChartTooltip(TRUE, call.memo.enrichedData[5]).outcome = "rendered"
    /\ ChartTooltip(TRUE, call.memo.enrichedData[4]).outcome = "null"
    /\ call.memo.enrichedData[4].price # call.memo.enrichedData[5].price

\* C26 (as claimed): in the 1D view over n >= 2 real points, for the
\* marketTimeIndex clamped to i in 0..n-1, displayData keeps the prices of every
\* point up to and including real point i (and so nulls only points after it);
\* at i = n - 1 no point is nulled.
C26_VisibleUpToIndex ==
    (IsRender(call) /\ call.timeRange = "1d" /\ Len(call.data) >= 2) =>
        LET n == Len(call.data)
            i == clamp(call.marketTimeIndex, 0, n - 1)
        IN  /\ \A e \in 1..(4 * i + 1) : HasValue(call.displayData[e], "price")
            /\ i = n - 1 =>
                  \A e \in 1..Len(call.displayData) : HasValue(call.displayData[e], "price")

====
